---------------------------- MODULE Spec2Model ----------------------------
(***************************************************************************)
(* Buyer lead intake: ownership-scoped record access, the audit history    *)
(* and the CSV bulk transfer, modelled from the route handlers under       *)
(* src/src/app/api and the table definitions of src/src/db/schema.ts.      *)
(*                                                                         *)
(* Text is a sequence of tokens.  A token is a delimiter character (comma, *)
(* double quote, space) or a word: a run of characters holding none of the *)
(* delimiters.  Splitting, trimming and quoting act on the delimiters, so  *)
(* they are computed on token sequences exactly as the code computes them  *)
(* on characters.  The empty text <<>> is JavaScript's '' and, since every *)
(* handler writes `x || null` / `x || undefined`, also null and undefined. *)
(***************************************************************************)
EXTENDS Integers, Sequences, FiniteSets, TLC

VARIABLES users, buyers, history, now, resp, calls

vars == <<users, buyers, history, now, resp, calls>>

---------------------------------------------------------------------------
(* Bounds of the model *)

\* number of buyer ids the id generator can hand out
MaxBuyers == 2

\* last tick of the wall clock
MaxClock == 1

\* data lines of an uploaded file
MaxRows == 2

---------------------------------------------------------------------------
(* Text *)

Comma == ","
Quote == "\""
Space == " "

T(w) == <<w>>

\* absent number (undefined / null / 0, all falsy) and parseInt's NaN
NoNumber == 0
NaN == -1

\* characters of a token; words not listed have the length of a short word
TokLen(t) ==
    CASE t \in {Comma, Quote, Space, "A", "1", "2", "3", "4"} -> 1
      [] t \in {"Al", "Bo", "12", "n1", "n2", "hi"} -> 2
      [] t = "9876543210" -> 10
      [] t = "9876543211" -> 10
      [] t = "demo-user-1" -> 11
      [] t \in {"u1", "u2", "a1", "U1", "A1", "b1", "b2", "b3", "b4"} -> 36
      [] OTHER -> 5

RECURSIVE StrLen(_)
StrLen(s) == IF s = <<>> THEN 0 ELSE TokLen(Head(s)) + StrLen(Tail(s))

\* String.prototype.toLowerCase on the words the model uses
toLowerCase(w) ==
    CASE w = "U1@X.IO" -> "u1@x.io"
      [] w = "Al" -> "al"
      [] w = "Bo" -> "bo"
      [] OTHER -> w

\* /^\d{10,15}$/ on a text
IsPhone(s) ==
    /\ Len(s) = 1
    /\ s[1] \in {"9876543210", "9876543211", "12", "1", "2", "3", "4"}
    /\ TokLen(s[1]) >= 10
    /\ TokLen(s[1]) <= 15

\* zod's email format on a text
IsEmail(s) == Len(s) = 1 /\ s[1] \in {"u1@x.io", "u2@x.io", "a1@x.io", "zz@x.io", "U1@X.IO", "c@d.io"}

Newline == "\n"

\* String.prototype.split(sep): the pieces between the separators
RECURSIVE Split(_, _)
Split(s, sep) ==
    IF \A i \in DOMAIN s : s[i] # sep
    THEN <<s>>
    ELSE LET k == CHOOSE i \in DOMAIN s : s[i] = sep /\ \A j \in 1..(i - 1) : s[j] # sep
         IN <<SubSeq(s, 1, k - 1)>> \o Split(SubSeq(s, k + 1, Len(s)), sep)

\* Array.prototype.join(sep)
RECURSIVE Join(_, _)
Join(parts, sep) ==
    IF parts = <<>> THEN <<>>
    ELSE IF Len(parts) = 1 THEN parts[1]
    ELSE parts[1] \o sep \o Join(Tail(parts), sep)

\* String.prototype.trim
RECURSIVE Trim(_)
Trim(s) ==
    IF s = <<>> THEN s
    ELSE IF Head(s) = Space THEN Trim(Tail(s))
    ELSE IF s[Len(s)] = Space THEN Trim(SubSeq(s, 1, Len(s) - 1))
    ELSE s

\* replace(/^"|"$/g, ''): one quote off the start and one off the end
StripQuotes(s) ==
    LET a == IF s # <<>> /\ Head(s) = Quote THEN Tail(s) ELSE s
    IN IF a # <<>> /\ a[Len(a)] = Quote THEN SubSeq(a, 1, Len(a) - 1) ELSE a

\* replace(/"/g, '""')
RECURSIVE DoubleQuotes(_)
DoubleQuotes(s) ==
    IF s = <<>> THEN <<>>
    ELSE (IF Head(s) = Quote THEN <<Quote, Quote>> ELSE <<Head(s)>>) \o DoubleQuotes(Tail(s))

\* the decimal numerals of the numbers the model uses
Numerals == <<"1", "2", "3", "4", "5", "6", "7", "8", "9">>

\* String(n) for a stored number
NumberText(n) == IF n \in DOMAIN Numerals THEN T(Numerals[n]) ELSE <<>>

\* parseInt on a column
parseInt(s) ==
    IF s # <<>> /\ \E n \in DOMAIN Numerals : Numerals[n] = s[1]
    THEN CHOOSE n \in DOMAIN Numerals : Numerals[n] = s[1]
    ELSE IF s # <<>> /\ s[1] = "12" THEN 12
    ELSE NaN

\* Date.prototype.toISOString of a clock value
toISOString(t) == T(<<"t0", "t1", "t2", "t3", "t4">>[t + 1])

---------------------------------------------------------------------------
(* Enumerations of src/src/lib/validations.ts and src/src/db/schema.ts *)

cityOptions == {"Chandigarh", "Mohali", "Zirakpur", "Panchkula", "Other"}
propertyTypeOptions == {"Apartment", "Villa", "Plot", "Office", "Retail"}
bhkOptions == {"1", "2", "3", "4", "Studio"}
purposeOptions == {"Buy", "Rent"}
timelineOptions == {"0-3m", "3-6m", ">6m", "Exploring"}
sourceOptions == {"Website", "Referral", "Walk-in", "Call", "Other"}
statusOptions == {"New", "Qualified", "Contacted", "Visited", "Negotiation", "Converted", "Dropped"}
userRoleEnum == {"user", "admin"}

InEnum(s, options) == Len(s) = 1 /\ s[1] \in options

\* SQL NULL in a uuid column
NULL == "NULL"

\* an absent request header
NoHeader == "NoHeader"

---------------------------------------------------------------------------
(* Validation: createBuyerSchema and updateBuyerSchema *)

Issue(p, m) == [path |-> p, message |-> m]

\* a z.enum(...) key: a value outside the enumeration aborts the object parse
EnumIssues(p, s, options) ==
    IF InEnum(s, options) THEN <<>> ELSE <<Issue(p, "Invalid enum value")>>

\* z.enum(bhkOptions).optional().or(z.literal('')...).or(z.undefined())
BhkIssues(s) ==
    IF s = <<>> \/ InEnum(s, bhkOptions) THEN <<>> ELSE <<Issue("bhk", "Invalid input")>>

\* z.number().int().positive().optional().or(z.undefined())
NumberIssues(p, n) ==
    IF n = NoNumber \/ n > 0 THEN <<>> ELSE <<Issue(p, "Invalid input")>>

\* the keys whose failure leaves a value to refine (string checks: min, max, regex, email)
CheckIssues(d) ==
    (IF StrLen(d.fullName) < 2 THEN <<Issue("fullName", "Name must be at least 2 characters")>>
     ELSE IF StrLen(d.fullName) > 80 THEN <<Issue("fullName", "Name must be less than 80 characters")>>
     ELSE <<>>)
    \o (IF d.email = <<>> \/ IsEmail(d.email) THEN <<>> ELSE <<Issue("email", "Invalid email")>>)
    \o (IF IsPhone(d.phone) THEN <<>> ELSE <<Issue("phone", "Phone must be 10-15 digits")>>)
    \o (IF StrLen(d.notes) > 1000 THEN <<Issue("notes", "Notes must be less than 1000 characters")>> ELSE <<>>)

\* the keys whose failure aborts the parse (wrong type, value outside an enumeration)
AbortIssues(d, withStatus) ==
    EnumIssues("city", d.city, cityOptions)
    \o EnumIssues("propertyType", d.propertyType, propertyTypeOptions)
    \o BhkIssues(d.bhk)
    \o EnumIssues("purpose", d.purpose, purposeOptions)
    \o NumberIssues("budgetMin", d.budgetMin)
    \o NumberIssues("budgetMax", d.budgetMax)
    \o EnumIssues("timeline", d.timeline, timelineOptions)
    \o EnumIssues("source", d.source, sourceOptions)
    \o (IF withStatus THEN EnumIssues("status", d.status, statusOptions) ELSE <<>>)

\* first .refine: bhk required for Apartment/Villa
BhkRefine(d) ==
    IF InEnum(d.propertyType, {"Apartment", "Villa"}) /\ d.bhk = <<>>
    THEN <<Issue("bhk", "BHK is required for Apartment and Villa")>>
    ELSE <<>>

\* a schema without the budget refinement
BudgetRefine_Absent(d) == <<>>

\* second .refine: budgetMax >= budgetMin
BudgetRefine(d) ==
    IF d.budgetMin # NoNumber /\ d.budgetMax # NoNumber /\ d.budgetMax < d.budgetMin
    THEN <<Issue("budgetMax", "Maximum budget must be greater than minimum budget")>>
    ELSE <<>>

\* the issues of schema.parse(d); the refinements run unless the object parse aborted
SchemaIssues(d, withStatus) ==
    IF AbortIssues(d, withStatus) # <<>>
    THEN CheckIssues(d) \o AbortIssues(d, withStatus)
    ELSE CheckIssues(d) \o BhkRefine(d) \o BudgetRefine(d)

createBuyerSchema(d) == SchemaIssues(d, FALSE)

updateBuyerSchema(d) == SchemaIssues(d, TRUE)

---------------------------------------------------------------------------
(* The database: tables users, buyers, buyer_history and their constraints *)

AllUserIds == <<"u1", "u2", "a1">>
UserIds == {AllUserIds[i] : i \in 1..3}

AllBuyerIds == <<"b1", "b2", "b3", "b4">>
BuyerIds == {AllBuyerIds[i] : i \in 1..MaxBuyers}

\* the id the [id] route gives every principal
DemoUserId == "demo-user-1"

\* the uuid column type accepts only uuid syntax (36 characters)
IsUuid(x) == TokLen(x) = 36

\* the value the uuid type reads from a text: hexadecimal digits are read in
\* either case, so the text of a uuid in capitals is the same uuid
Uuid(x) ==
    CASE x = "U1" -> "u1"
      [] x = "A1" -> "a1"
      [] OTHER -> x

\* rows of table users after registration and seeding
SeedUsers ==
    [u \in UserIds |->
        [email |-> CASE u = "u1" -> "u1@x.io" [] u = "u2" -> "u2@x.io" [] OTHER -> "a1@x.io",
         role |-> IF u = "a1" THEN "admin" ELSE "user",
         isActive |-> TRUE]]

\* owner_id uuid REFERENCES users(id): what an INSERT or UPDATE of the column accepts
OwnerIdAccepted(ownerId) == ownerId = NULL \/ (IsUuid(ownerId) /\ ownerId \in DOMAIN users)

\* changed_by uuid REFERENCES users(id)
ChangedByAccepted(changedBy) == changedBy = NULL \/ (IsUuid(changedBy) /\ changedBy \in DOMAIN users)

\* the row db.insert(buyers).values({...}) stores for validated data v
BuyerRow(id, v, status, ownerId, createdAt, updatedAt) ==
    [id |-> id, fullName |-> v.fullName, email |-> v.email, phone |-> v.phone,
     city |-> v.city, propertyType |-> v.propertyType, bhk |-> v.bhk,
     purpose |-> v.purpose, budgetMin |-> v.budgetMin, budgetMax |-> v.budgetMax,
     timeline |-> v.timeline, source |-> v.source, status |-> status,
     notes |-> v.notes, tags |-> v.tags, ownerId |-> ownerId,
     createdAt |-> createdAt, updatedAt |-> updatedAt]

\* a row of buyer_history; diff is {action, data} for a creation and
\* {action, changes} for an update, the part not used being empty
HistoryRow(buyerId, changedBy, action, data, changes) ==
    [buyerId |-> buyerId, changedBy |-> changedBy, changedAt |-> now,
     diff |-> [action |-> action, data |-> data, changes |-> changes]]

\* whether db.insert(buyerHistory) stores the row: the store is up and the
\* row's references are accepted
HistoryWritten(row, histUp, stored) ==
    histUp /\ ChangedByAccepted(row.changedBy) /\ row.buyerId \in stored

\* an insert that stores nothing
InsertHistory_Dropped(h, row, histUp, stored) == h

\* db.insert(buyerHistory) inside try/catch: the row is appended when the store
\* accepts it, and the failure is swallowed otherwise
InsertHistory(h, row, histUp, stored) ==
    IF HistoryWritten(row, histUp, stored)
    THEN Append(h, row)
    ELSE h

\* a catch block that answers 500 when the history insert fails
HistoryCatch_Surfaced(written, status) == IF written THEN status ELSE 500

\* catch (historyError) { console.error(...) }: the failure is logged and the
\* handler goes on to its own answer
HistoryCatch(written, status) == status

\* buyer_id REFERENCES buyers(id) ON DELETE cascade
RECURSIVE CascadeBuyer(_, _)
CascadeBuyer(h, buyerId) ==
    IF h = <<>> THEN <<>>
    ELSE IF Head(h).buyerId = buyerId THEN CascadeBuyer(Tail(h), buyerId)
    ELSE <<Head(h)>> \o CascadeBuyer(Tail(h), buyerId)

\* changed_by REFERENCES users(id) ON DELETE set null
SetNullChangedBy(h, userId) ==
    [i \in DOMAIN h |-> IF h[i].changedBy = userId THEN [h[i] EXCEPT !.changedBy = NULL] ELSE h[i]]

\* f with key k removed
Without(f, k) == [x \in DOMAIN f \ {k} |-> f[x]]

\* f with key k set to v
With(f, k, v) == [x \in DOMAIN f \cup {k} |-> IF x = k THEN v ELSE f[x]]

---------------------------------------------------------------------------
(* Requests: the three principal headers *)

Headers(email, role, id) == [email |-> email, role |-> role, id |-> id]

\* an identity whose id is the x-user-id header
getUserFromRequestById_FromHeader(req) ==
    [id |-> IF req.id = NoHeader THEN DemoUserId ELSE req.id,
     email |-> IF req.email = NoHeader THEN "demo@example.com" ELSE req.email,
     role |-> IF req.role = NoHeader THEN "user" ELSE req.role]

\* getUserFromRequest of buyers/[id]/route.ts
getUserFromRequestById(req) ==
    [id |-> DemoUserId,
     email |-> IF req.email = NoHeader THEN "demo@example.com" ELSE req.email,
     role |-> IF req.role = NoHeader THEN "user" ELSE req.role]

\* db.select().from(users).where(eq(users.email, e)).limit(1)
UsersByEmail(e) == {u \in DOMAIN users : users[u].email = e}

\* getUserFromRequest of buyers/route.ts, import/route.ts and export/route.ts
getUserFromRequest(req) ==
    IF req.email = NoHeader
    THEN [ok |-> FALSE, error |-> "User email not provided"]
    ELSE IF req.id # NoHeader /\ TokLen(req.id) > 10
    THEN [ok |-> TRUE, id |-> req.id, email |-> req.email,
          role |-> IF req.role = NoHeader THEN "user" ELSE req.role]
    ELSE IF UsersByEmail(toLowerCase(req.email)) = {}
    THEN [ok |-> FALSE, error |-> "User not found"]
    ELSE LET u == CHOOSE x \in UsersByEmail(toLowerCase(req.email)) : TRUE
         IN [ok |-> TRUE, id |-> u, email |-> users[u].email, role |-> users[u].role]

\* getCurrentUser of admin/users/[id]/route.ts
getCurrentUser(req) ==
    IF req.email = NoHeader
    THEN [ok |-> FALSE, error |-> "Authentication required"]
    ELSE IF req.id # NoHeader /\ TokLen(req.id) > 10 /\ req.role # NoHeader
    THEN [ok |-> TRUE, id |-> req.id, email |-> req.email, role |-> req.role]
    ELSE IF UsersByEmail(toLowerCase(req.email)) = {}
    THEN [ok |-> FALSE, error |-> "Failed to authenticate user"]
    ELSE LET u == CHOOSE x \in UsersByEmail(toLowerCase(req.email)) : TRUE
         IN [ok |-> TRUE, id |-> u, email |-> users[u].email, role |-> users[u].role]

\* checkOwnershipOrAdmin with the role and owner tests lost: any found record is authorized
checkOwnershipOrAdmin_AnyFound(buyerId, currentUser) ==
    IF buyerId \notin DOMAIN buyers
    THEN [authorized |-> FALSE, found |-> FALSE, reason |-> "Buyer not found"]
    ELSE [authorized |-> TRUE, found |-> TRUE, reason |-> "Owner access"]

\* checkOwnershipOrAdmin with the admin branch lost
checkOwnershipOrAdmin_OwnerOnly(buyerId, currentUser) ==
    IF buyerId \notin DOMAIN buyers
    THEN [authorized |-> FALSE, found |-> FALSE, reason |-> "Buyer not found"]
    ELSE IF buyers[buyerId].ownerId = currentUser.id
    THEN [authorized |-> TRUE, found |-> TRUE, reason |-> "Owner access"]
    ELSE [authorized |-> FALSE, found |-> TRUE, reason |-> "Not authorized - not owner"]

\* checkOwnershipOrAdmin of buyers/[id]/route.ts
checkOwnershipOrAdmin(buyerId, currentUser) ==
    IF buyerId \notin DOMAIN buyers
    THEN [authorized |-> FALSE, found |-> FALSE, reason |-> "Buyer not found"]
    ELSE IF currentUser.role = "admin"
    THEN [authorized |-> TRUE, found |-> TRUE, reason |-> "Admin access"]
    ELSE IF buyers[buyerId].ownerId = currentUser.id
    THEN [authorized |-> TRUE, found |-> TRUE, reason |-> "Owner access"]
    ELSE [authorized |-> FALSE, found |-> TRUE, reason |-> "Not authorized - not owner"]

---------------------------------------------------------------------------
(* JSON payloads of create and update *)

Body(fullName, phone, bhk, status, notes, ownerId) ==
    [fullName |-> fullName, email |-> <<>>, phone |-> phone, city |-> <<>>,
     propertyType |-> <<>>, bhk |-> bhk, purpose |-> <<>>, budgetMin |-> NoNumber,
     budgetMax |-> NoNumber, timeline |-> <<>>, source |-> <<>>, status |-> status,
     notes |-> notes, tags |-> <<>>, ownerId |-> ownerId]

BodyBase == Body(T("Al"), T("9876543210"), T("2"), <<>>, <<>>, <<>>)
BodySpoof == Body(T("Al"), T("9876543210"), T("2"), T("Qualified"), <<>>, T("u2"))
BodyNotes == Body(T("Al"), T("9876543210"), T("2"), <<>>, T("n1"), <<>>)
BodyBadPhone == Body(T("Al"), T("12"), T("2"), <<>>, <<>>, <<>>)

Bodies == {BodyBase, BodySpoof, BodyNotes, BodyBadPhone}

\* x || d
Or(x, d) == IF x = <<>> THEN d ELSE x

\* cleanedData of POST /api/buyers: no status and no owner is taken from the body
PostCleanedData(body) ==
    [fullName |-> body.fullName, email |-> body.email, phone |-> body.phone,
     city |-> Or(body.city, T("Chandigarh")),
     propertyType |-> Or(body.propertyType, T("Apartment")),
     bhk |-> body.bhk, purpose |-> Or(body.purpose, T("Buy")),
     budgetMin |-> body.budgetMin, budgetMax |-> body.budgetMax,
     timeline |-> Or(body.timeline, T("0-3m")),
     source |-> Or(body.source, T("Website")),
     notes |-> body.notes, tags |-> body.tags]

\* cleanedData of PUT /api/buyers/[id]
PutCleanedData(body) ==
    [fullName |-> body.fullName, email |-> body.email, phone |-> body.phone,
     city |-> Or(body.city, T("Chandigarh")),
     propertyType |-> Or(body.propertyType, T("Apartment")),
     bhk |-> body.bhk, purpose |-> Or(body.purpose, T("Buy")),
     budgetMin |-> body.budgetMin, budgetMax |-> body.budgetMax,
     timeline |-> Or(body.timeline, T("0-3m")),
     source |-> Or(body.source, T("Website")),
     status |-> Or(body.status, T("New")),
     notes |-> body.notes, tags |-> body.tags]

---------------------------------------------------------------------------
(* State *)

\* no request is being handled
Idle == [op |-> "NONE"]

\* the requests that can be in flight at the same time
Procs == {"p", "q"}

\* no request of the caller is in flight
NoCall == [op |-> "NONE"]

Init ==
    /\ users = SeedUsers
    /\ buyers = <<>>
    /\ history = <<>>
    /\ now = 0
    /\ resp = Idle
    /\ calls = [p \in Procs |-> NoCall]

\* the response reaches the caller and the request ends; requests are handled
\* one at a time, each handler running from its first statement to its return
Respond ==
    /\ resp # Idle
    /\ resp' = Idle
    /\ UNCHANGED calls
    /\ UNCHANGED <<users, buyers, history, now>>

\* the wall clock advances between two requests
Tick ==
    /\ resp = Idle
    /\ UNCHANGED calls
    /\ now < MaxClock
    /\ now' = now + 1
    /\ UNCHANGED <<users, buyers, history, resp>>

---------------------------------------------------------------------------
(* POST /api/buyers *)

\* ownerId taken from the payload when it names one
CreateOwnerId_FromBody(currentUser, body) ==
    IF body.ownerId # <<>> THEN body.ownerId[1] ELSE currentUser.id

\* ownerId: currentUser.id and status: 'New' of the inserted values
CreateOwnerId(currentUser, body) == currentUser.id

CreateStatus(body) == T("New")

CreateBuyer(req, body, newId, histUp) ==
    LET currentUser == getUserFromRequest(req)
        cleanedData == PostCleanedData(body)
        issues == createBuyerSchema(cleanedData)
        row == BuyerRow(newId, cleanedData, CreateStatus(body),
                        CreateOwnerId(currentUser, body), now, now)
        entry == HistoryRow(newId, currentUser.id, "created", {cleanedData}, {})
        reply(status) == [op |-> "POST", req |-> req, status |-> status, id |-> newId,
                          body |-> body, histUp |-> histUp,
                          issues |-> IF status = 400 THEN issues ELSE <<>>]
    IN
    /\ resp = Idle
    /\ UNCHANGED calls
    /\ newId \in BuyerIds \ DOMAIN buyers
    /\ IF ~currentUser.ok
       THEN /\ resp' = reply(401)
            /\ UNCHANGED <<users, buyers, history, now>>
       ELSE IF issues # <<>>
       THEN /\ resp' = reply(400)
            /\ UNCHANGED <<users, buyers, history, now>>
       ELSE IF ~OwnerIdAccepted(row.ownerId)
       THEN /\ resp' = reply(500)
            /\ UNCHANGED <<users, buyers, history, now>>
       ELSE /\ buyers' = With(buyers, newId, row)
            /\ history' = InsertHistory(history, entry, histUp, DOMAIN buyers')
            /\ resp' = reply(HistoryCatch(HistoryWritten(entry, histUp, DOMAIN buyers'), 201))
            /\ UNCHANGED <<users, now>>

\* POST of the later buyers/route.ts (src/unnamed/part_001): the parse runs
\* inside the try block whose catch answers 500
CreateBuyerLater(req, body, newId, histUp) ==
    LET currentUser == getUserFromRequest(req)
        cleanedData == PostCleanedData(body)
        issues == createBuyerSchema(cleanedData)
        row == BuyerRow(newId, cleanedData, CreateStatus(body),
                        CreateOwnerId(currentUser, body), now, now)
        entry == HistoryRow(newId, currentUser.id, "created", {cleanedData}, {})
        reply(status) == [op |-> "POST2", req |-> req, status |-> status, id |-> newId,
                          body |-> body, histUp |-> histUp, issues |-> <<>>]
    IN
    /\ resp = Idle
    /\ UNCHANGED calls
    /\ newId \in BuyerIds \ DOMAIN buyers
    /\ IF ~currentUser.ok
       THEN /\ resp' = reply(401)
            /\ UNCHANGED <<users, buyers, history, now>>
       ELSE IF issues # <<>> \/ ~OwnerIdAccepted(row.ownerId)
       THEN /\ resp' = reply(500)
            /\ UNCHANGED <<users, buyers, history, now>>
       ELSE /\ buyers' = With(buyers, newId, row)
            /\ history' = InsertHistory(history, entry, histUp, DOMAIN buyers')
            /\ resp' = reply(HistoryCatch(HistoryWritten(entry, histUp, DOMAIN buyers'), 201))
            /\ UNCHANGED <<users, now>>

---------------------------------------------------------------------------
(* PUT and DELETE /api/buyers/[id] *)

\* an update that also stamps createdAt
UpdateSet_Recreated(id, validatedData, old) ==
    BuyerRow(id, validatedData, validatedData.status, old.ownerId, now, now)

\* an update that keeps the stored notes when the payload holds none
UpdateSet_Merge(id, validatedData, old) ==
    [BuyerRow(id, validatedData, validatedData.status, old.ownerId, old.createdAt, now)
        EXCEPT !.notes = IF validatedData.notes = <<>> THEN old.notes ELSE validatedData.notes]

\* db.update(buyers).set({...validatedData, updatedAt: new Date()}): the row
\* after the update of the row old
UpdateSet(id, validatedData, old) ==
    BuyerRow(id, validatedData, validatedData.status, old.ownerId, old.createdAt, now)

PutBuyer(req, id, body, histUp) ==
    LET currentUser == getUserFromRequestById(req)
        ownershipCheck == checkOwnershipOrAdmin(id, currentUser)
        cleanedData == PutCleanedData(body)
        issues == updateBuyerSchema(cleanedData)
        old == buyers[id]
        row == UpdateSet(id, cleanedData, old)
        changes == IF cleanedData.status # old.status
                   THEN {<<"status", old.status, cleanedData.status>>}
                   ELSE {}
        entry == HistoryRow(id, currentUser.id, "updated", {}, changes)
        reply(status) == [op |-> "PUT", req |-> req, status |-> status, id |-> id,
                          body |-> body, histUp |-> histUp,
                          issues |-> IF status = 400 THEN issues ELSE <<>>]
    IN
    /\ resp = Idle
    /\ UNCHANGED calls
    /\ IF ~ownershipCheck.authorized
           THEN /\ resp' = reply(403)
                /\ UNCHANGED <<users, buyers, history, now>>
           ELSE IF issues # <<>>
           THEN /\ resp' = reply(400)
                /\ UNCHANGED <<users, buyers, history, now>>
           ELSE /\ buyers' = [buyers EXCEPT ![id] = row]
                /\ history' = IF changes # {}
                              THEN InsertHistory(history, entry, histUp, DOMAIN buyers)
                              ELSE history
                /\ resp' = reply(IF changes # {}
                                 THEN HistoryCatch(HistoryWritten(entry, histUp, DOMAIN buyers), 200)
                                 ELSE 200)
                /\ UNCHANGED <<users, now>>

DeleteBuyer(req, id) ==
    LET currentUser == getUserFromRequestById(req)
        ownershipCheck == checkOwnershipOrAdmin(id, currentUser)
        reply(status) == [op |-> "DELETE", req |-> req, status |-> status, id |-> id]
    IN
    /\ resp = Idle
    /\ UNCHANGED calls
    /\ IF ~ownershipCheck.authorized
           THEN /\ resp' = reply(403)
                /\ UNCHANGED <<users, buyers, history, now>>
           ELSE /\ buyers' = Without(buyers, id)
                /\ history' = CascadeBuyer(history, id)
                /\ resp' = reply(200)
                /\ UNCHANGED <<users, now>>

\* GET /api/buyers/[id]: no identity is read; an id that is no uuid makes the
\* select throw
GetBuyer(req, id) ==
    LET reply(status) == [op |-> "GET", req |-> req, status |-> status, id |-> id]
    IN
    /\ resp = Idle
    /\ UNCHANGED calls
    /\ resp' = IF ~IsUuid(id) THEN reply(500)
               ELSE IF id \notin DOMAIN buyers THEN reply(404)
               ELSE [op |-> "GET", req |-> req, status |-> 200, id |-> id,
                     buyer |-> buyers[id]]
    /\ UNCHANGED <<users, buyers, history, now>>

---------------------------------------------------------------------------
(* DELETE /api/admin/users/[id] *)

\* a transfer target chosen among the active users of any role
adminUsers_AnyRole(targetUserId) ==
    {u \in DOMAIN users : u # targetUserId /\ users[u].isActive}

\* the active admins other than the user being deleted
adminUsers(targetUserId) ==
    {u \in DOMAIN users : users[u].role = "admin" /\ u # targetUserId /\ users[u].isActive}

\* a user deletion that removes the user's records with the user
TransferBuyers_Deleted(bs, targetUserId, to) ==
    [b \in {x \in DOMAIN bs : bs[x].ownerId # Uuid(targetUserId)} |-> bs[b]]

\* db.update(buyers).set({ownerId, updatedAt}).where(eq(buyers.ownerId, targetUserId))
TransferBuyers(bs, targetUserId, to) ==
    [b \in DOMAIN bs |->
        IF bs[b].ownerId = Uuid(targetUserId)
        THEN [bs[b] EXCEPT !.ownerId = to, !.updatedAt = now]
        ELSE bs[b]]

DeleteUser(req, targetUserId) ==
    LET currentUser == getCurrentUser(req)
        associatedBuyers == {b \in DOMAIN buyers : buyers[b].ownerId = Uuid(targetUserId)}
        reply(status) == [op |-> "DELETE_USER", req |-> req, status |-> status, id |-> targetUserId]
    IN
    /\ resp = Idle
    /\ UNCHANGED calls
    /\ IF ~currentUser.ok
       THEN /\ resp' = reply(500)
            /\ UNCHANGED <<users, buyers, history, now>>
       ELSE IF currentUser.role # "admin"
       THEN /\ resp' = reply(403)
            /\ UNCHANGED <<users, buyers, history, now>>
       ELSE IF targetUserId = currentUser.id
       THEN /\ resp' = reply(400)
            /\ UNCHANGED <<users, buyers, history, now>>
       ELSE IF ~IsUuid(targetUserId)
       THEN /\ resp' = reply(500)
            /\ UNCHANGED <<users, buyers, history, now>>
       ELSE IF Uuid(targetUserId) \notin DOMAIN users
       THEN /\ resp' = reply(404)
            /\ UNCHANGED <<users, buyers, history, now>>
       ELSE /\ IF associatedBuyers = {}
               THEN buyers' = buyers
               ELSE IF adminUsers(Uuid(targetUserId)) # {}
               THEN \E adminRecipient \in adminUsers(Uuid(targetUserId)) :
                       buyers' = TransferBuyers(buyers, targetUserId, adminRecipient)
               ELSE buyers' = TransferBuyers(buyers, targetUserId, NULL)
            /\ users' = Without(users, Uuid(targetUserId))
            /\ history' = SetNullChangedBy(history, Uuid(targetUserId))
            /\ resp' = reply(200)
            /\ UNCHANGED now

---------------------------------------------------------------------------
(* PUT /api/admin/users/[id] *)

\* a key the JSON body does not carry
Undefined == "undefined"

\* the JSON values true and false
JsonBooleans == {"true", "false"}

UserUpdate(role, isActive) == [role |-> role, isActive |-> isActive]

UpdateUser(req, targetUserId, body) ==
    LET currentUser == getCurrentUser(req)
        reply(status) == [op |-> "PUT_USER", req |-> req, status |-> status,
                          id |-> targetUserId, body |-> body]
        updated == [users[Uuid(targetUserId)] EXCEPT
                       !.role = IF body.role # Undefined THEN body.role ELSE @,
                       !.isActive = IF body.isActive # Undefined THEN body.isActive = "true" ELSE @]
    IN
    /\ resp = Idle
    /\ UNCHANGED calls
    /\ IF ~currentUser.ok
       THEN /\ resp' = reply(500)
            /\ UNCHANGED <<users, buyers, history, now>>
       ELSE IF currentUser.role # "admin"
       THEN /\ resp' = reply(403)
            /\ UNCHANGED <<users, buyers, history, now>>
       ELSE IF ~IsUuid(targetUserId)
       THEN /\ resp' = reply(500)
            /\ UNCHANGED <<users, buyers, history, now>>
       ELSE IF Uuid(targetUserId) \notin DOMAIN users
       THEN /\ resp' = reply(404)
            /\ UNCHANGED <<users, buyers, history, now>>
       ELSE IF targetUserId = currentUser.id /\ body.role # Undefined
       THEN /\ resp' = reply(400)
            /\ UNCHANGED <<users, buyers, history, now>>
       ELSE IF body.role # Undefined /\ body.role \notin userRoleEnum
       THEN /\ resp' = reply(400)
            /\ UNCHANGED <<users, buyers, history, now>>
       ELSE IF body.isActive # Undefined /\ body.isActive \notin JsonBooleans
       THEN /\ resp' = reply(400)
            /\ UNCHANGED <<users, buyers, history, now>>
       ELSE /\ users' = [users EXCEPT ![Uuid(targetUserId)] = updated]
            /\ resp' = reply(200)
            /\ UNCHANGED <<buyers, history, now>>

---------------------------------------------------------------------------
(* GET /api/buyers: the list *)

Query(page, limit, search, city, status, propertyType) ==
    [page |-> page, limit |-> limit, search |-> search, city |-> city,
     status |-> status, propertyType |-> propertyType]

\* ilike(column, '%search%') for a search that is a whole word; NULL matches nothing
ilike(column, search) ==
    \E i \in DOMAIN column : toLowerCase(column[i]) = toLowerCase(search)

\* the conditions search, city, status and propertyType push
FilterMatches(b, q, sentinels) ==
    /\ q.search # "" => (ilike(b.fullName, q.search) \/ ilike(b.phone, q.search) \/ ilike(b.email, q.search))
    /\ (q.city # "" /\ q.city \notin sentinels) => b.city = T(q.city)
    /\ (q.status # "" /\ q.status \notin sentinels) => b.status = T(q.status)
    /\ (q.propertyType # "" /\ q.propertyType \notin sentinels) => b.propertyType = T(q.propertyType)

\* ORDER BY updated_at DESC: the orders of the ids S the store may answer in
OrderByUpdatedAtDesc(S) ==
    {o \in [1..Cardinality(S) -> S] :
        /\ \A i, j \in DOMAIN o : i # j => o[i] # o[j]
        /\ \A i, j \in DOMAIN o : i < j => buyers[o[i]].updatedAt >= buyers[o[j]].updatedAt}

\* .limit(limit).offset(offset)
LimitOffset(o, limit, offset) ==
    SubSeq(o, offset + 1, IF offset + limit < Len(o) THEN offset + limit ELSE Len(o))

\* Math.ceil(total / limit)
Pages(total, limit) == (total + limit - 1) \div limit

\* GET of src/src/app/api/buyers/route.ts: no principal is resolved
ListBuyers(req, q) ==
    LET matching == {b \in DOMAIN buyers : FilterMatches(buyers[b], q, {})}
    IN
    /\ resp = Idle
    /\ UNCHANGED calls
    /\ \E o \in OrderByUpdatedAtDesc(matching) :
          resp' = [op |-> "LIST", req |-> req, query |-> q, status |-> 200,
                   buyers |-> LimitOffset(o, q.limit, (q.page - 1) * q.limit),
                   total |-> Cardinality(matching),
                   pages |-> Pages(Cardinality(matching), q.limit)]
    /\ UNCHANGED <<users, buyers, history, now>>

\* the role-based condition of the later GET: only role 'user' is filtered
RoleScope(currentUser, b) == currentUser.role = "user" => b.ownerId = currentUser.id

\* GET of the later buyers/route.ts (src/unnamed/part_001)
ListBuyersRoleScoped(req, q) ==
    LET currentUser == getUserFromRequest(req)
        matching == {b \in DOMAIN buyers :
                        RoleScope(currentUser, buyers[b])
                        /\ FilterMatches(buyers[b], q, {"All Cities", "All Statuses", "All Types"})}
        empty == [op |-> "LIST2", req |-> req, query |-> q, status |-> 200,
                  buyers |-> <<>>, total |-> 0, pages |-> 0]
    IN
    /\ resp = Idle
    /\ UNCHANGED calls
    /\ IF ~currentUser.ok
       THEN resp' = empty
       ELSE IF currentUser.role = "user" /\ ~IsUuid(currentUser.id)
       THEN resp' = empty
       ELSE \E o \in OrderByUpdatedAtDesc(matching) :
               resp' = [op |-> "LIST2", req |-> req, query |-> q, status |-> 200,
                        buyers |-> LimitOffset(o, q.limit, (q.page - 1) * q.limit),
                        total |-> Cardinality(matching),
                        pages |-> Pages(Cardinality(matching), q.limit)]
    /\ UNCHANGED <<users, buyers, history, now>>

---------------------------------------------------------------------------
(* GET /api/buyers/export *)

\* an export query without the owner condition
ExportScope_Everyone(currentUser, b) == TRUE

\* the scope of the export query
ExportScope(currentUser, b) == currentUser.role = "admin" \/ b.ownerId = currentUser.id

\* the header line
ExportHeader ==
    Join(<< T("ID"), <<"Full", Space, "Name">>, T("Email"), T("Phone"), T("City"), <<"Property", Space, "Type">>,
            T("BHK"), T("Purpose"), <<"Budget", Space, "Min">>, <<"Budget", Space, "Max">>, T("Timeline"),
            T("Source"), T("Status"), T("Notes"), T("Tags"), <<"Owner", Space, "ID">>,
            <<"Created", Space, "At">>, <<"Updated", Space, "At">> >>, T(Comma))

\* one record's line
ExportRow(b) ==
    Join(<< T(b.id),
            T(Quote) \o b.fullName \o T(Quote),
            b.email,
            b.phone,
            b.city,
            b.propertyType,
            b.bhk,
            b.purpose,
            NumberText(b.budgetMin),
            NumberText(b.budgetMax),
            b.timeline,
            b.source,
            b.status,
            IF b.notes # <<>> THEN T(Quote) \o DoubleQuotes(b.notes) \o T(Quote) ELSE <<>>,
            T(Quote) \o Join(b.tags, <<Comma, Space>>) \o T(Quote),
            IF b.ownerId = NULL THEN <<>> ELSE T(b.ownerId),
            toISOString(b.createdAt),
            toISOString(b.updatedAt) >>, T(Comma))

\* csvRows.join('\n')
CsvContent(o) == Join(<<ExportHeader>> \o [i \in DOMAIN o |-> ExportRow(buyers[o[i]])], T(Newline))

ExportBuyers(req) ==
    LET currentUser == getUserFromRequest(req)
        allBuyers == {b \in DOMAIN buyers : ExportScope(currentUser, buyers[b])}
        reply(status) == [op |-> "EXPORT", req |-> req, status |-> status]
    IN
    /\ resp = Idle
    /\ UNCHANGED calls
    /\ IF ~currentUser.ok
       THEN resp' = reply(IF currentUser.error = "User email not provided" THEN 401 ELSE 500)
       ELSE IF currentUser.role # "admin" /\ ~IsUuid(currentUser.id)
       THEN resp' = reply(500)
       ELSE \E o \in OrderByUpdatedAtDesc(allBuyers) :
               resp' = [op |-> "EXPORT", req |-> req, status |-> 200,
                        buyers |-> o, csv |-> CsvContent(o)]
    /\ UNCHANGED <<users, buyers, history, now>>

---------------------------------------------------------------------------
(* POST /api/buyers/import *)

\* columns[k] || '' for the zero-based index k
Column(columns, k) == IF k + 1 \in DOMAIN columns THEN columns[k + 1] ELSE <<>>

\* line.split(',').map(col => col.trim().replace(/^"|"$/g, ''))
Columns(line) ==
    LET cols == Split(line, Comma)
    IN  [i \in DOMAIN cols |-> StripQuotes(Trim(cols[i]))]

\* columns[13].split(',').map(tag => tag.trim())
ImportTags(column) ==
    LET tags == Split(column, Comma)
    IN  IF column = <<>> THEN <<>> ELSE [i \in DOMAIN tags |-> Trim(tags[i])]

\* buyerData of one data line
buyerData(columns) ==
    [fullName |-> Column(columns, 1),
     email |-> Column(columns, 2),
     phone |-> Column(columns, 3),
     city |-> Or(Column(columns, 4), T("Chandigarh")),
     propertyType |-> Or(Column(columns, 5), T("Apartment")),
     bhk |-> Column(columns, 6),
     purpose |-> Or(Column(columns, 7), T("Buy")),
     budgetMin |-> IF Column(columns, 8) # <<>> THEN parseInt(Column(columns, 8)) ELSE NoNumber,
     budgetMax |-> IF Column(columns, 9) # <<>> THEN parseInt(Column(columns, 9)) ELSE NoNumber,
     timeline |-> Or(Column(columns, 10), T("0-3m")),
     source |-> Or(Column(columns, 11), T("Import")),
     notes |-> Column(columns, 12),
     tags |-> ImportTags(Column(columns, 13))]

\* an import that takes the owner from the Owner ID column
ImportOwnerId_FromColumn(currentUser, columns) ==
    IF Column(columns, 15) # <<>> THEN Column(columns, 15)[1] ELSE currentUser.id

\* ownerId of the inserted row
ImportOwnerId(currentUser, columns) == currentUser.id

\* status of the inserted row
ImportStatus(columns) == T("New")

\* a split that keeps the blank lines
Lines_Unfiltered(csvText) == Split(csvText, Newline)

\* csvText.split('\n').filter(line => line.trim())
Lines(csvText) == SelectSeq(Split(csvText, Newline), LAMBDA line : Trim(line) # <<>>)

\* lines.slice(1)
DataLines(csvText) == Tail(Lines(csvText))

\* the outcome of the try block for data line i: the issues or the store
\* error thrown, <<>> when the row is inserted.  down holds the indexes of
\* the rows whose insert the store refuses.
RowError(line, i, currentUser, down) ==
    LET columns == Columns(line)
        issues == createBuyerSchema(buyerData(columns))
    IN  IF issues # <<>> THEN issues
        ELSE IF i \in down \/ ~OwnerIdAccepted(ImportOwnerId(currentUser, columns))
        THEN <<Issue("", "insert failed")>>
        ELSE <<>>

\* results after one iteration of the loop body on data line i (zero-based)
ImportRow(acc, line, i, currentUser, down) ==
    LET columns == Columns(line)
        error == RowError(line, i, currentUser, down)
        id == Head(acc.ids)
    IN  IF error = <<>>
        THEN [acc EXCEPT
                !.buyers = With(acc.buyers, id,
                                BuyerRow(id, buyerData(columns), ImportStatus(columns),
                                         ImportOwnerId(currentUser, columns), now, now)),
                !.ids = Tail(acc.ids),
                !.success = acc.success + 1]
        ELSE [acc EXCEPT
                !.failed = acc.failed + 1,
                !.errors = Append(acc.errors, [row |-> i + 2, issues |-> error])]

\* a loop that stops at the first failing row
RECURSIVE ImportLoop_StopAtFailure(_, _, _, _, _)
ImportLoop_StopAtFailure(acc, dataLines, i, currentUser, down) ==
    IF i >= Len(dataLines) THEN acc
    ELSE IF RowError(dataLines[i + 1], i, currentUser, down) # <<>>
    THEN ImportRow(acc, dataLines[i + 1], i, currentUser, down)
    ELSE ImportLoop_StopAtFailure(ImportRow(acc, dataLines[i + 1], i, currentUser, down),
                                  dataLines, i + 1, currentUser, down)

\* for (let i = 0; i < dataLines.length; i++) { try {...} catch {...} }
RECURSIVE ImportLoop(_, _, _, _, _)
ImportLoop(acc, dataLines, i, currentUser, down) ==
    IF i >= Len(dataLines) THEN acc
    ELSE ImportLoop(ImportRow(acc, dataLines[i + 1], i, currentUser, down),
                    dataLines, i + 1, currentUser, down)

\* the sequences of n distinct ids not in the store: gen_random_uuid() per insert
FreshIds(n) ==
    {ids \in [1..n -> BuyerIds \ DOMAIN buyers] : \A i, j \in 1..n : i # j => ids[i] # ids[j]}

ImportBuyers(req, csvText, down) ==
    LET currentUser == getUserFromRequest(req)
        reply(status) == [op |-> "IMPORT", req |-> req, file |-> csvText, down |-> down,
                          status |-> status]
    IN
    /\ resp = Idle
    /\ UNCHANGED calls
    /\ IF ~currentUser.ok
       THEN /\ resp' = reply(IF currentUser.error = "User email not provided" THEN 401 ELSE 500)
            /\ UNCHANGED <<users, buyers, history, now>>
       ELSE IF Len(Lines(csvText)) < 2
       THEN /\ resp' = reply(400)
            /\ UNCHANGED <<users, buyers, history, now>>
       ELSE /\ Len(DataLines(csvText)) <= Cardinality(BuyerIds \ DOMAIN buyers)
            /\ \E ids \in FreshIds(Len(DataLines(csvText))) :
                  LET results == ImportLoop([buyers |-> buyers, ids |-> ids, success |-> 0,
                                             failed |-> 0, errors |-> <<>>],
                                            DataLines(csvText), 0, currentUser, down)
                  IN  /\ buyers' = results.buyers
                      /\ resp' = [op |-> "IMPORT", req |-> req, file |-> csvText,
                                  down |-> down, status |-> 200,
                                  success |-> results.success, failed |-> results.failed,
                                  errors |-> results.errors]
            /\ UNCHANGED <<users, history, now>>

---------------------------------------------------------------------------
(* Specification of the record handlers: create, update, delete, user deletion *)

\* the principals of the record handlers: two users, the admin, a user whose
\* role header is neither user nor admin, and a caller sending no header
RecordRequests ==
    { Headers("u1@x.io", "user", "u1"),
      Headers("u2@x.io", "user", "u2"),
      Headers("a1@x.io", "admin", "a1"),
      Headers("u1@x.io", "manager", "u1"),
      Headers(NoHeader, NoHeader, NoHeader) }

\* the callers of the user administration: the admin and a forged admin header
AdminRequests ==
    { Headers("a1@x.io", "admin", "a1"),
      Headers("u2@x.io", "admin", "u2") }

Next ==
    \/ Respond
    \/ \E req \in {Headers("u1@x.io", "user", "u1"), Headers("u2@x.io", "user", "u2"),
                   Headers("U1@X.IO", NoHeader, NoHeader), Headers(NoHeader, NoHeader, NoHeader)},
          body \in {BodyBase, BodySpoof, BodyBadPhone}, newId \in BuyerIds :
          CreateBuyer(req, body, newId, TRUE)
    \/ \E req \in RecordRequests, id \in BuyerIds, body \in Bodies, histUp \in BOOLEAN :
          PutBuyer(req, id, body, histUp)
    \/ \E req \in RecordRequests, id \in BuyerIds :
          DeleteBuyer(req, id)
    \/ \E req \in AdminRequests, targetUserId \in {"u1", "a1"} :
          DeleteUser(req, targetUserId)

Spec == Init /\ [][Next]_vars

---------------------------------------------------------------------------
(* Properties of the record handlers *)

\* the role a request acts under: the role header, 'user' when there is none
RoleOf(req) == IF req.role = NoHeader THEN "user" ELSE req.role

\* the step is the handling of an update or a delete of a stored record
WriteOfStored == resp'.op \in {"PUT", "DELETE"} /\ resp'.id \in DOMAIN buyers

\* C1: an update or a delete of a stored record R requested by a principal
\* whose role is not admin and whose id is not R.ownerId is refused with 403
\* and leaves every record and the history log unchanged.
C1_NonOwnerRefused ==
    [][ (WriteOfStored /\ RoleOf(resp'.req) # "admin"
            /\ buyers[resp'.id].ownerId # resp'.req.id)
        => (resp'.status = 403 /\ buyers' = buyers /\ history' = history) ]_vars

\* a user other than the owner has been refused the update or delete of a record
C1_Witness ==
    /\ resp.op \in {"PUT", "DELETE"}
    /\ resp.status = 403
    /\ resp.id \in DOMAIN buyers
    /\ resp.req.id = "u2"
    /\ buyers[resp.id].ownerId = "u1"

\* C2: the write/delete decision on a stored record is allow exactly when the
\* principal's role is admin or the record's ownerId equals the principal's
\* id; an allowed delete removes the record and an allowed update with a valid
\* payload replaces it.
C2_OwnerAllowed ==
    [][ WriteOfStored
        => /\ (resp'.status # 403)
                <=> (RoleOf(resp'.req) = "admin" \/ buyers[resp'.id].ownerId = resp'.req.id)
           /\ (resp'.status = 200 /\ resp'.op = "DELETE") => resp'.id \notin DOMAIN buyers'
           /\ (resp'.status = 200 /\ resp'.op = "PUT")
                => buyers'[resp'.id].status = Or(resp'.body.status, T("New")) ]_vars

\* C3: an update and a delete of a stored record requested under the admin
\* role are allowed whatever the record's ownerId is, and take effect: the
\* delete removes the record, the update replaces its fields by the payload
\* unless the payload fails validation.
C3_AdminAllowed ==
    [][ (WriteOfStored /\ RoleOf(resp'.req) = "admin")
        => IF resp'.op = "DELETE"
           THEN resp'.status = 200 /\ resp'.id \notin DOMAIN buyers'
           ELSE \/ /\ resp'.status = 200
                   /\ buyers'[resp'.id].fullName = resp'.body.fullName
                   /\ buyers'[resp'.id].phone = resp'.body.phone
                   /\ buyers'[resp'.id].notes = resp'.body.notes
                   /\ buyers'[resp'.id].status = Or(resp'.body.status, T("New"))
                   /\ buyers'[resp'.id].ownerId = buyers[resp'.id].ownerId
                \/ /\ resp'.status = 400
                   /\ ~IsPhone(resp'.body.phone)
                   /\ buyers' = buyers ]_vars

\* an admin has updated a record that has no owner
C3_Witness ==
    /\ resp.op = "PUT"
    /\ resp.status = 200
    /\ resp.req.role = "admin"
    /\ buyers[resp.id].ownerId = NULL
    /\ buyers[resp.id].status = T("Qualified")

\* C6: a record stored by a successful create has the creating principal's id
\* as ownerId and status New, whatever owner and status the payload carries,
\* and an id that no stored record had.  The creating principal is the one
\* the id header names or, without an id header, the user the email belongs to.
C6_CreatorOwns ==
    [][ (resp'.op = "POST" /\ resp'.status = 201)
        => /\ resp'.id \notin DOMAIN buyers
           /\ DOMAIN buyers' = DOMAIN buyers \cup {resp'.id}
           /\ \A b \in DOMAIN buyers : buyers'[b] = buyers[b]
           /\ resp'.req.id # NoHeader => buyers'[resp'.id].ownerId = resp'.req.id
           /\ resp'.req.id = NoHeader
                => users[buyers'[resp'.id].ownerId].email = toLowerCase(resp'.req.email)
           /\ buyers'[resp'.id].status = T("New") ]_vars

\* a create whose payload names another owner and another status has stored a
\* second record
C6_Witness ==
    /\ resp.op = "POST"
    /\ resp.status = 201
    /\ resp.body.ownerId = T("u2")
    /\ resp.body.status = T("Qualified")
    /\ resp.req.id = "u1"
    /\ Cardinality(DOMAIN buyers) = 2

\* C10: while the history store accepts writes, a successful update that
\* changes the status from s to t appends exactly one entry for the record,
\* with action "updated" and changes {status: {from: s, to: t}}; a successful
\* update that keeps the status appends none.
C10_StatusChangeLogged ==
    [][ (resp'.op = "PUT" /\ resp'.status = 200 /\ resp'.histUp)
        => IF buyers'[resp'.id].status # buyers[resp'.id].status
           THEN /\ Len(history') = Len(history) + 1
                /\ SubSeq(history', 1, Len(history)) = history
                /\ history'[Len(history')].buyerId = resp'.id
                /\ history'[Len(history')].diff.action = "updated"
                /\ history'[Len(history')].diff.changes
                      = {<<"status", buyers[resp'.id].status, buyers'[resp'.id].status>>}
           ELSE history' = history ]_vars

---------------------------------------------------------------------------
(* Specification of the queries: list and export over a store filled by    *)
(* creates and changed by user deletions                                   *)

BodyBo == Body(T("Bo"), T("9876543211"), T("3"), <<>>, <<>>, <<>>)

\* the principals of the queries: a user, the admin, a user whose role
\* header is neither user nor admin, a caller known by email only, a caller
\* sending no header, and a caller whose id header is no uuid
QueryRequests ==
    { Headers("u1@x.io", "user", "u1"),
      Headers("a1@x.io", "admin", "a1"),
      Headers("u1@x.io", "manager", "u1"),
      Headers("U1@X.IO", NoHeader, NoHeader),
      Headers(NoHeader, NoHeader, NoHeader),
      Headers("u1@x.io", "user", DemoUserId) }

Queries ==
    { Query(1, 10, "", "", "", ""),
      Query(2, 1, "", "", "", ""),
      Query(1, 10, "AL", "All Cities", "New", "Apartment") }

\* the creates that fill the store
QueryCreates ==
    { <<Headers("u1@x.io", "user", "u1"), BodyBase>>,
      <<Headers("u2@x.io", "user", "u2"), BodyBase>>,
      <<Headers("u2@x.io", "user", "u2"), BodyBo>> }

NextQuery ==
    \/ Respond
    \/ Tick
    \/ \E c \in QueryCreates, newId \in BuyerIds : CreateBuyer(c[1], c[2], newId, TRUE)
    \/ \E req \in AdminRequests, targetUserId \in {"u1", "a1"} :
          DeleteUser(req, targetUserId)
    \/ \E req \in QueryRequests, q \in Queries : ListBuyers(req, q)
    \/ \E req \in QueryRequests, q \in Queries : ListBuyersRoleScoped(req, q)
    \/ \E req \in QueryRequests : ExportBuyers(req)

SpecQuery == Init /\ [][NextQuery]_vars

---------------------------------------------------------------------------
(* Specification of the import: files of up to MaxRows lines after the     *)
(* header, imported into a store that is empty at first                    *)

\* a line as the export writes it for a record of another owner whose status
\* is Qualified
LineExported ==
    ExportRow(BuyerRow("b1", PostCleanedData(BodyBase), T("Qualified"), "u2", 0, 0))

\* a line whose phone fails validation
LineBadPhone ==
    ExportRow(BuyerRow("b2", PostCleanedData(BodyBadPhone), T("New"), "u1", 0, 0))

\* a line of spaces
LineBlank == <<Space, Space>>

ImportLines == {LineExported, LineBadPhone, LineBlank}

\* the empty file, and the header followed by up to MaxRows lines
ImportFiles ==
    {<<>>} \cup
    {Join(<<ExportHeader>> \o rows, T(Newline)) :
        rows \in UNION {[1..n -> ImportLines] : n \in 0..MaxRows}}

\* the importers: a user, the admin, a caller sending no header, a caller
\* whose email is of no user, and a caller whose id header is no uuid
ImportRequests ==
    { Headers("u1@x.io", "user", "u1"),
      Headers("a1@x.io", "admin", "a1"),
      Headers(NoHeader, NoHeader, NoHeader),
      Headers("Bo", NoHeader, NoHeader),
      Headers("u1@x.io", "user", DemoUserId) }

NextImport ==
    \/ Respond
    \/ \E req \in ImportRequests, csvText \in ImportFiles, down \in SUBSET (0..(MaxRows - 1)) :
          ImportBuyers(req, csvText, down)
    \/ \E req \in {Headers("a1@x.io", "admin", "a1")}, id \in BuyerIds : DeleteBuyer(req, id)

SpecImport == Init /\ [][NextImport]_vars

---------------------------------------------------------------------------
(* Properties of the queries *)

\* the records of the store owned by the principal with id pid
OwnedBy(pid) == {b \in DOMAIN buyers : buyers[b].ownerId = pid}

\* the records a list response holds
Returned(r) == {r.buyers[i] : i \in DOMAIN r.buyers}

\* C4: whenever a principal whose role is not admin lists records, for any
\* page, page size and filter, every returned record is owned by the
\* principal and the returned total counts only the principal's records.
C4_ListOwnedOnly ==
    (resp.op \in {"LIST", "LIST2"} /\ getUserFromRequest(resp.req).ok
        /\ getUserFromRequest(resp.req).role # "admin" /\ resp.status = 200)
    => /\ Returned(resp) \subseteq OwnedBy(getUserFromRequest(resp.req).id)
       /\ resp.total <= Cardinality(OwnedBy(getUserFromRequest(resp.req).id))

\* the ids in the first column of the data lines of a CSV text
CsvIds(csv) ==
    LET lines == Split(csv, Newline)
    IN  [i \in 1..(Len(lines) - 1) |-> Split(lines[i + 1], Comma)[1]]

\* C5: the CSV export answered to a non-admin principal holds one line for
\* each stored record the principal owns and no other line; the export
\* answered to an admin holds one line for every stored record.
C5_ExportScoped ==
    (resp.op = "EXPORT" /\ resp.status = 200)
    => LET P == getUserFromRequest(resp.req)
           expected == IF P.role = "admin" THEN DOMAIN buyers ELSE OwnedBy(P.id)
           ids == CsvIds(resp.csv)
       IN  /\ {ids[i] : i \in DOMAIN ids} = {T(b) : b \in expected}
           /\ Len(ids) = Cardinality(expected)
           /\ P.role # "admin" =>
                 \A i \in DOMAIN ids : \A b \in DOMAIN buyers :
                    ids[i] = T(b) => buyers[b].ownerId = P.id

\* a non-admin's export was answered while the store held a record of the
\* principal, a record of another owner and a record without owner, or an
\* admin's export was answered over such a store
C5_Witness ==
    /\ resp.op = "EXPORT" /\ resp.status = 200
    /\ getUserFromRequest(resp.req).role # "admin"
    /\ OwnedBy(getUserFromRequest(resp.req).id) # {}
    /\ \E b \in DOMAIN buyers : buyers[b].ownerId \notin {NULL, getUserFromRequest(resp.req).id}

---------------------------------------------------------------------------
(* Properties of the import *)

\* a step in which an import request is handled
ImportHandled == resp = Idle /\ resp'.op = "IMPORT"

\* the ids of the records a step adds to the store
Added == DOMAIN buyers' \ DOMAIN buyers

\* C7: every record an import inserts is owned by the importing principal
\* and has status New, whatever the Owner ID and Status columns of its line
\* hold; an import inserts no record owned by anyone else.
C7_ImporterOwns ==
    [][ImportHandled =>
          \A b \in Added :
             /\ buyers'[b].ownerId = getUserFromRequest(resp'.req).id
             /\ buyers'[b].status = T("New")]_vars

\* an import inserted a row whose line names another user in the Owner ID
\* column and Qualified in the Status column
C7_Witness ==
    /\ resp.op = "IMPORT" /\ resp.status = 200 /\ resp.success >= 1
    /\ \E i \in DOMAIN DataLines(resp.file) :
          LET columns == Columns(DataLines(resp.file)[i])
          IN  /\ RowError(DataLines(resp.file)[i], i - 1, getUserFromRequest(resp.req), resp.down) = <<>>
              /\ Column(columns, 15) = T("u2")
              /\ Column(columns, 12) = T("Qualified")
              /\ getUserFromRequest(resp.req).id = "u1"

\* C8: an import of N >= 1 data lines handles every line once and in file
\* order: the failing lines, and only they, are reported, in increasing row
\* number; every other line adds one record holding that line's data, also
\* when an earlier line failed; the records stored before stay;
\* success + failed = N, the number of errors is failed and the number of
\* records added is success.
C8_EveryRowProcessed ==
    [][(ImportHandled /\ resp'.status = 200) =>
          \E dataLines \in {DataLines(resp'.file)}, P \in {getUserFromRequest(resp'.req)} :
          \E fails \in {{i \in DOMAIN dataLines : RowError(dataLines[i], i - 1, P, resp'.down) # <<>>}} :
             LET N == Len(dataLines)
                 failing == SelectSeq([i \in 1..N |-> i], LAMBDA i : i \in fails)
             IN  /\ N >= 1
                 /\ resp'.success + resp'.failed = N
                 /\ Len(resp'.errors) = resp'.failed
                 /\ Cardinality(Added) = resp'.success
                 /\ \A b \in DOMAIN buyers : b \in DOMAIN buyers' /\ buyers'[b] = buyers[b]
                 /\ [k \in DOMAIN resp'.errors |-> resp'.errors[k].row]
                       = [k \in DOMAIN failing |-> failing[k] + 1]
                 /\ \A i \in (1..N) \ fails :
                       \E d \in {buyerData(Columns(dataLines[i]))} :
                          Cardinality({b \in Added : buyers'[b] = BuyerRow(b, d, T("New"), P.id, now, now)})
                             = Cardinality({j \in (1..N) \ fails : dataLines[j] = dataLines[i]})
                 /\ \A b \in Added : \E i \in (1..N) \ fails :
                       \E d \in {buyerData(Columns(dataLines[i]))} :
                          buyers'[b] = BuyerRow(b, d, T("New"), P.id, now, now)]_vars

\* an import ended in which a line failed and a later line was inserted
C8_Witness ==
    /\ resp.op = "IMPORT" /\ resp.status = 200
    /\ resp.failed >= 1 /\ resp.success >= 1
    /\ resp.errors[1].row = 2
    /\ Len(DataLines(resp.file)) = resp.success + resp.failed

\* C9: an import that inserts k rows appends k history entries, each with
\* action created, naming an inserted record and the importing principal.
C9_ImportLogged ==
    [][(ImportHandled /\ resp'.status = 200) =>
          /\ Len(history') = Len(history) + resp'.success
          /\ \A k \in (Len(history) + 1)..Len(history') :
                /\ history'[k].diff.action = "created"
                /\ history'[k].buyerId \in Added
                /\ history'[k].changedBy = getUserFromRequest(resp'.req).id]_vars

---------------------------------------------------------------------------
(* Specification of the history log: creates and updates while the history *)
(* store accepts writes or refuses them, deletes of records and of users   *)

\* the callers of the history specification: a user, a caller sending no
\* header, the admin, and a caller sending the admin role and no email
HistoryCreators == {Headers("u1@x.io", "user", "u1"), Headers(NoHeader, NoHeader, NoHeader)}

HistoryWriters == {Headers("a1@x.io", "admin", "a1"), Headers(NoHeader, "admin", NoHeader)}

NextHistory ==
    \/ Respond
    \/ \E req \in HistoryCreators, body \in {BodyBase, BodyBadPhone}, newId \in BuyerIds,
          histUp \in BOOLEAN :
          CreateBuyer(req, body, newId, histUp)
    \/ \E req \in HistoryCreators, body \in {BodyBase, BodyBadPhone}, newId \in BuyerIds,
          histUp \in BOOLEAN :
          CreateBuyerLater(req, body, newId, histUp)
    \/ \E req \in HistoryWriters, id \in BuyerIds, body \in {BodyBase, BodySpoof},
          histUp \in BOOLEAN :
          PutBuyer(req, id, body, histUp)
    \/ \E req \in HistoryWriters, id \in BuyerIds : DeleteBuyer(req, id)
    \/ \E req \in {Headers("a1@x.io", "admin", "a1")}, targetUserId \in {"u1"} :
          DeleteUser(req, targetUserId)

SpecHistory == Init /\ [][NextHistory]_vars

---------------------------------------------------------------------------
(* Properties of the history log *)

\* a step in which a create request is handled, by either version of POST
CreateHandled == resp = Idle /\ resp'.op \in {"POST", "POST2"}

\* the step appends one entry with action "created" for the record and the
\* principal of the request
CreatedEntryAppended ==
    /\ Len(history') = Len(history) + 1
    /\ SubSeq(history', 1, Len(history)) = history
    /\ history'[Len(history')].diff.action = "created"
    /\ history'[Len(history')].diff.changes = {}
    /\ history'[Len(history')].buyerId = resp'.id
    /\ history'[Len(history')].changedBy = getUserFromRequest(resp'.req).id

\* C11 as stated: every successful create appends exactly one "created"
\* entry naming the new record and the creating principal; a rejected create
\* appends no entry and stores no record.
C11_CreateAlwaysLogged ==
    [][CreateHandled =>
          IF resp'.status = 201
          THEN CreatedEntryAppended
          ELSE history' = history /\ buyers' = buyers]_vars

\* C11, amended: a successful create appends exactly one "created" entry
\* naming the new record and the creating principal whenever the history
\* store accepts the write, and none when it refuses it; a rejected create
\* appends no entry and stores no record.
C11_CreateLogged ==
    [][CreateHandled =>
          IF resp'.status = 201
          THEN IF resp'.histUp THEN CreatedEntryAppended ELSE history' = history
          ELSE history' = history /\ buyers' = buyers]_vars

\* a create has stored a second record and the log holds one "created" entry
\* for each record
C11_Witness ==
    /\ resp.op \in {"POST", "POST2"} /\ resp.status = 201 /\ resp.histUp
    /\ Cardinality(DOMAIN buyers) = 2
    /\ Len(history) = 2
    /\ history[2].buyerId = resp.id /\ history[2].diff.action = "created"
    /\ history[1].buyerId # resp.id

\* C12: the history log only grows: every step leaves the entries written
\* so far in place and unchanged.
C12_AppendOnly ==
    [][Len(history') >= Len(history) /\ SubSeq(history', 1, Len(history)) = history]_vars

\* C13: when the history write of a create or of an update fails, the record
\* is stored as the request says and the answer is the success answer: 201
\* for the create, 200 for the update.
C13_HistoryFailureSwallowed ==
    [][/\ (CreateHandled /\ ~resp'.histUp /\ getUserFromRequest(resp'.req).ok
             /\ createBuyerSchema(PostCleanedData(resp'.body)) = <<>>
             /\ OwnerIdAccepted(getUserFromRequest(resp'.req).id))
          => /\ resp'.status = 201
             /\ resp'.id \in DOMAIN buyers'
             /\ buyers'[resp'.id].fullName = resp'.body.fullName
             /\ history' = history
       /\ (resp = Idle /\ resp'.op = "PUT" /\ resp'.id \in DOMAIN buyers
             /\ checkOwnershipOrAdmin(resp'.id, getUserFromRequestById(resp'.req)).authorized
             /\ updateBuyerSchema(PutCleanedData(resp'.body)) = <<>>
             /\ PutCleanedData(resp'.body).status # buyers[resp'.id].status
             /\ history' = history)
          => /\ resp'.status = 200
             /\ buyers'[resp'.id].status = PutCleanedData(resp'.body).status]_vars

\* a create was answered 201 and its record is stored although the history
\* store refused the entry
C13_Witness ==
    /\ resp.op \in {"POST", "POST2"} /\ resp.status = 201 /\ ~resp.histUp
    /\ resp.id \in DOMAIN buyers
    /\ \A k \in DOMAIN history : history[k].buyerId # resp.id

---------------------------------------------------------------------------
(* Properties of the user deletion *)

\* a step in which a user deletion request is handled
DeleteUserHandled == resp = Idle /\ resp'.op = "DELETE_USER"

\* C14: a user deletion stores the same records before and after; when it
\* succeeds and no active admin other than the deleted user exists, every
\* record the user owned is still stored, with ownerId null and its other
\* fields kept, and the records of other owners are untouched.
C14_UserDeletionKeepsRecords ==
    [][DeleteUserHandled =>
          /\ DOMAIN buyers' = DOMAIN buyers
          /\ resp'.status # 200 => (buyers' = buyers /\ users' = users)
          /\ \A b \in DOMAIN buyers :
                IF resp'.status = 200 /\ buyers[b].ownerId = Uuid(resp'.id)
                THEN /\ adminUsers(Uuid(resp'.id)) = {} => buyers'[b].ownerId = NULL
                     /\ buyers'[b] = [buyers[b] EXCEPT !.ownerId = buyers'[b].ownerId,
                                                       !.updatedAt = buyers'[b].updatedAt]
                ELSE buyers'[b] = buyers[b]]_vars

\* the owner of the two stored records was deleted when no admin was left,
\* and both records are stored without owner
C14_Witness ==
    /\ resp.op = "DELETE_USER" /\ resp.status = 200 /\ resp.id = "u1"
    /\ adminUsers("u1") = {}
    /\ Cardinality(DOMAIN buyers) = 2
    /\ \A b \in DOMAIN buyers : buyers[b].ownerId = NULL
    /\ \E k \in DOMAIN history : history[k].changedBy = NULL

---------------------------------------------------------------------------
(* Specification of the user administration: role and activity updates and *)
(* deletions of users, over a store filled by creates                      *)

\* the callers: the admin with the id header, the admin known by email only,
\* and a user
AdminCallers ==
    { Headers("a1@x.io", "admin", "a1"),
      Headers("a1@x.io", NoHeader, NoHeader),
      Headers("u1@x.io", "user", "u1") }

\* the ids in the path: the users, the admin, the admin's id in capitals, and
\* a text that is no uuid
AdminTargets == {"u1", "u2", "a1", "A1", DemoUserId}

UserUpdates ==
    { UserUpdate("user", Undefined), UserUpdate("admin", Undefined),
      UserUpdate("owner", Undefined), UserUpdate(Undefined, "false"),
      UserUpdate(Undefined, "true"), UserUpdate(Undefined, "no") }

NextAdmin ==
    \/ Respond
    \/ \E newId \in BuyerIds :
          CreateBuyer(Headers("u1@x.io", "user", "u1"), BodyBase, newId, TRUE)
    \/ \E req \in AdminCallers, targetUserId \in AdminTargets, body \in UserUpdates :
          UpdateUser(req, targetUserId, body)
    \/ \E req \in AdminCallers, targetUserId \in AdminTargets :
          DeleteUser(req, targetUserId)

SpecAdmin == Init /\ [][NextAdmin]_vars

\* C15: a request of an admin A that names A's own account, to delete it or
\* to change its role, is answered 400 and leaves the users and the records
\* unchanged; so no request of A removes A's account or changes A's role.
C15_AdminSelfProtected ==
    [][(resp = Idle /\ resp'.op \in {"DELETE_USER", "PUT_USER"}
          /\ getCurrentUser(resp'.req).ok
          /\ getCurrentUser(resp'.req).id \in DOMAIN users
          /\ users[getCurrentUser(resp'.req).id].role = "admin"
          /\ getCurrentUser(resp'.req).role = "admin")
       => /\ (Uuid(resp'.id) = getCurrentUser(resp'.req).id
                /\ (resp'.op = "DELETE_USER" \/ resp'.body.role # Undefined))
             => (resp'.status = 400 /\ users' = users /\ buyers' = buyers)
          /\ getCurrentUser(resp'.req).id \in DOMAIN users'
          /\ users'[getCurrentUser(resp'.req).id].role = "admin"]_vars

---------------------------------------------------------------------------
(* Properties of the principal resolution and of the error answers *)

\* C16: a request that carries no email is answered 401 and changes nothing
\* in the store: no record, no history entry and no user is added, removed
\* or changed by it.
C16_NoEmailUnauthenticated ==
    [][(resp = Idle /\ resp'.op # "NONE" /\ resp'.req.email = NoHeader)
       => (resp'.status = 401 /\ buyers' = buyers /\ history' = history /\ users' = users)]_vars

\* C17: an update or a delete of an id that is not stored is answered 404,
\* whatever the principal, and leaves records and history unchanged; 403 is
\* answered only for a stored record.
C17_MissingIsNotFound ==
    [][(resp = Idle /\ resp'.op \in {"PUT", "DELETE"})
       => /\ resp'.id \notin DOMAIN buyers
             => (resp'.status = 404 /\ buyers' = buyers /\ history' = history)
          /\ resp'.status = 403 => resp'.id \in DOMAIN buyers]_vars

---------------------------------------------------------------------------
(* Specification of the validation: creates, updates and imports of inputs *)
(* that differ in property type, bhk and the budget bounds                 *)

\* Apartment (the default) without bhk
BodyApartmentNoBhk == [BodyBase EXCEPT !.bhk = <<>>]

\* Plot without bhk, and Plot with bhk
BodyPlotNoBhk == [BodyBase EXCEPT !.propertyType = T("Plot"), !.bhk = <<>>]
BodyPlotBhk == [BodyBase EXCEPT !.propertyType = T("Plot")]

\* both budget bounds, the maximum below the minimum and above it
BodyBudgetDown == [BodyBase EXCEPT !.budgetMin = 7, !.budgetMax = 5]
BodyBudgetUp == [BodyBase EXCEPT !.budgetMin = 5, !.budgetMax = 7]

\* the maximum below the minimum and a city outside the enumeration
BodyBudgetDownCity == [BodyBudgetDown EXCEPT !.city = T("Pune")]

\* the maximum below the minimum and a name of one character
BodyBudgetDownName == [BodyBudgetDown EXCEPT !.fullName = T("A")]

ValidationBodies ==
    { BodyApartmentNoBhk, BodyPlotNoBhk, BodyPlotBhk,
      BodyBudgetDown, BodyBudgetUp, BodyBudgetDownCity, BodyBudgetDownName }

\* the line the export writes for a record holding the fields of body
LineOf(body) == ExportRow(BuyerRow("b1", body, T("New"), "u1", 0, 0))

\* a line holding a name, a phone and a bhk, its other columns empty
LineDefaults ==
    Join(<< <<>>, T("Al"), <<>>, T("9876543210"), <<>>, <<>>, T("2"),
            <<>>, <<>>, <<>>, <<>>, <<>> >>, T(Comma))

ValidationLines ==
    { LineOf(PostCleanedData(BodyPlotBhk)), LineOf(PostCleanedData(BodyBudgetDown)),
      LineOf(PostCleanedData(BodyBudgetDownCity)), LineDefaults }

ValidationFiles ==
    {Join(<<ExportHeader>> \o rows, T(Newline)) :
        rows \in UNION {[1..n -> ValidationLines] : n \in 1..MaxRows}}

NextValidation ==
    \/ Respond
    \/ \E req \in {Headers("u1@x.io", "user", "u1"), Headers(NoHeader, NoHeader, NoHeader)},
          body \in ValidationBodies, newId \in BuyerIds :
          CreateBuyer(req, body, newId, TRUE)
    \/ \E req \in {Headers("a1@x.io", "admin", "a1"), Headers("u2@x.io", "user", "u2")},
          id \in BuyerIds,
          body \in {BodyPlotBhk, BodyBudgetDown, BodyBudgetUp, BodyBudgetDownCity, BodyBudgetDownName} :
          PutBuyer(req, id, body, TRUE)
    \/ \E csvText \in ValidationFiles :
          ImportBuyers(Headers("u1@x.io", "user", "u1"), csvText, {})

SpecValidation == Init /\ [][NextValidation]_vars

---------------------------------------------------------------------------
(* Properties of the validation *)

\* C18: every stored record has a bhk exactly when its property type is
\* Apartment or Villa.
C18_BhkIffResidential ==
    \A b \in DOMAIN buyers :
       (buyers[b].bhk # <<>>) <=> InEnum(buyers[b].propertyType, {"Apartment", "Villa"})

\* both budget bounds are present and the maximum is below the minimum
BudgetDown(d) == d.budgetMin # NoNumber /\ d.budgetMax # NoNumber /\ d.budgetMax < d.budgetMin

\* the issues name the field
Names(issues, field) == \E i \in DOMAIN issues : issues[i].path = field

\* every stored record with both bounds has budgetMax >= budgetMin
StoreBudgetOrdered == \A b \in DOMAIN buyers : ~BudgetDown(buyers[b])

\* what a create, an update or an import answers to an input whose maximum is
\* below its minimum, the request being authenticated and allowed: a
\* validation failure that stores and changes nothing and that names
\* budgetMax when always is TRUE, or when no field of the input is outside
\* its type or enumeration
BudgetDownRejected(always) ==
    /\ (resp'.op = "POST" /\ getUserFromRequest(resp'.req).ok
          /\ BudgetDown(PostCleanedData(resp'.body)))
       => /\ resp'.status = 400 /\ buyers' = buyers /\ history' = history
          /\ (always \/ AbortIssues(PostCleanedData(resp'.body), FALSE) = <<>>)
                => Names(resp'.issues, "budgetMax")
    /\ (resp'.op = "PUT" /\ BudgetDown(PutCleanedData(resp'.body))
          /\ checkOwnershipOrAdmin(resp'.id, getUserFromRequestById(resp'.req)).authorized)
       => /\ resp'.status = 400 /\ buyers' = buyers /\ history' = history
          /\ (always \/ AbortIssues(PutCleanedData(resp'.body), TRUE) = <<>>)
                => Names(resp'.issues, "budgetMax")
    /\ (resp'.op = "IMPORT" /\ resp'.status = 200)
       => \E dataLines \in {DataLines(resp'.file)} :
             \A i \in DOMAIN dataLines :
                \E d \in {buyerData(Columns(dataLines[i]))} :
                   BudgetDown(d) =>
                      /\ \E k \in DOMAIN resp'.errors :
                            /\ resp'.errors[k].row = i + 1
                            /\ (always \/ AbortIssues(d, FALSE) = <<>>)
                                  => Names(resp'.errors[k].issues, "budgetMax")
                      /\ \A b \in Added : BuyerRow(b, d, T("New"), buyers'[b].ownerId, now, now) # buyers'[b]

---------------------------------------------------------------------------
(* Specification of the round trip: records are created, exported, and the *)
(* exported file is imported again with its ID column blanked              *)

BodyTags == [BodyBase EXCEPT !.tags = <<T("hi")>>]

\* a line with its first column emptied
BlankId(line) ==
    LET cols == Split(line, Comma)
    IN  Join(<< <<>> >> \o Tail(cols), T(Comma))

\* the exported file with the ID column of every data line blanked
BlankIds(csv) ==
    LET lines == Split(csv, Newline)
    IN  Join(<<Head(lines)>> \o [i \in 1..(Len(lines) - 1) |-> BlankId(lines[i + 1])], T(Newline))

\* the file the export answers to exporter is imported by importer
ReimportExport(exporter, importer) ==
    LET currentUser == getUserFromRequest(exporter)
        allBuyers == {b \in DOMAIN buyers : ExportScope(currentUser, buyers[b])}
    IN  /\ currentUser.ok
        /\ allBuyers # {}
        /\ \E o \in OrderByUpdatedAtDesc(allBuyers) :
              ImportBuyers(importer, BlankIds(CsvContent(o)), {})

NextRoundTrip ==
    \/ Respond
    \/ Tick
    \/ \E body \in {BodyBase, BodyNotes, BodyTags}, newId \in BuyerIds :
          CreateBuyer(Headers("u1@x.io", "user", "u1"), body, newId, TRUE)
    \/ \E exporter \in {Headers("u1@x.io", "user", "u1"), Headers("a1@x.io", "admin", "a1")},
          importer \in {Headers("u1@x.io", "user", "u1"), Headers("u2@x.io", "user", "u2")} :
          ReimportExport(exporter, importer)

SpecRoundTrip == Init /\ [][NextRoundTrip]_vars

\* the fields of a record other than id, ownerId, status and the timestamps
Scalars(b) ==
    [fullName |-> b.fullName, email |-> b.email, phone |-> b.phone, city |-> b.city,
     propertyType |-> b.propertyType, bhk |-> b.bhk, purpose |-> b.purpose,
     budgetMin |-> b.budgetMin, budgetMax |-> b.budgetMax, timeline |-> b.timeline,
     source |-> b.source, notes |-> b.notes, tags |-> b.tags]

\* C20: importing as P the export of a set of stored records, its ID column
\* blanked, answers success = the number of exported records and failed = 0,
\* and adds one record per exported record, equal to it on every field other
\* than id, ownerId, status and the timestamps, with a fresh id and
\* ownerId = P.id.
C20_RoundTrip ==
    [][(resp = Idle /\ resp'.op = "IMPORT" /\ resp'.status = 200)
       => \A S \in SUBSET DOMAIN buyers : \A o \in OrderByUpdatedAtDesc(S) :
             (S # {} /\ resp'.file = BlankIds(CsvContent(o)))
             => /\ resp'.success = Cardinality(S)
                /\ resp'.failed = 0
                /\ Added \cap DOMAIN buyers = {}
                /\ \A b \in Added : buyers'[b].ownerId = getUserFromRequest(resp'.req).id
                /\ \E f \in [Added -> S] :
                      /\ \A a, b \in Added : a # b => f[a] # f[b]
                      /\ \A b \in Added : Scalars(buyers'[b]) = Scalars(buyers[f[b]])]_vars

---------------------------------------------------------------------------
(* Properties of the import's row numbers and of files without data lines *)

\* the positions, counted from 1, of the lines of the uploaded file that the
\* import keeps
KeptPositions(csvText) ==
    LET orig == Split(csvText, Newline)
    IN  SelectSeq([i \in 1..Len(orig) |-> i], LAMBDA i : Trim(orig[i]) # <<>>)

\* C21: the row number of each per-row import error is the position, counted
\* from 1 with the header as line 1, of the failing data line in the uploaded
\* file, also when the file holds blank lines between its data lines.
C21_RowNumberOriginal ==
    [][(ImportHandled /\ resp'.status = 200) =>
          \E dataLines \in {DataLines(resp'.file)}, P \in {getUserFromRequest(resp'.req)},
             pos \in {KeptPositions(resp'.file)} :
          \E failing \in {SelectSeq([i \in 1..Len(dataLines) |-> i],
                                    LAMBDA i : RowError(dataLines[i], i - 1, P, resp'.down) # <<>>)} :
             [k \in DOMAIN resp'.errors |-> resp'.errors[k].row]
                = [k \in DOMAIN failing |-> pos[failing[k] + 1]]]_vars

\* C22: an import line whose city, property type, purpose, timeline and
\* source columns are empty and whose name, phone and bhk are valid is
\* accepted and inserted with city Chandigarh, property type Apartment,
\* purpose Buy, timeline 0-3m and source Import.
C22_DefaultsAccepted ==
    [][(ImportHandled /\ resp'.status = 200) =>
          \A i \in DOMAIN DataLines(resp'.file) :
             (DataLines(resp'.file)[i] = LineDefaults /\ (i - 1) \notin resp'.down)
             => /\ \A k \in DOMAIN resp'.errors : resp'.errors[k].row # i + 1
                /\ \E b \in Added :
                      /\ buyers'[b].fullName = T("Al")
                      /\ buyers'[b].city = T("Chandigarh")
                      /\ buyers'[b].propertyType = T("Apartment")
                      /\ buyers'[b].purpose = T("Buy")
                      /\ buyers'[b].timeline = T("0-3m")
                      /\ buyers'[b].source = T("Import")]_vars

\* a file without a data line: the empty file, one line only, or a first
\* line followed by blank lines only
NoDataLine(csvText) ==
    LET orig == Split(csvText, Newline)
    IN  \A i \in 2..Len(orig) : Trim(orig[i]) = <<>>

\* C26: the import of a file without a data line by an authenticated caller
\* is answered 400 before any row is handled: no record and no history entry
\* is written and the answer holds no success and no failed count.
C26_NoDataLineRejected ==
    [][(ImportHandled /\ getUserFromRequest(resp'.req).ok /\ NoDataLine(resp'.file)) =>
          /\ resp'.status = 400
          /\ buyers' = buyers
          /\ history' = history
          /\ "success" \notin DOMAIN resp'
          /\ "failed" \notin DOMAIN resp'
          /\ "errors" \notin DOMAIN resp']_vars

\* an import of the header followed by blank lines only was answered 400
C26_Witness ==
    /\ resp.op = "IMPORT" /\ resp.status = 400
    /\ getUserFromRequest(resp.req).ok
    /\ Len(Split(resp.file, Newline)) >= 2
    /\ NoDataLine(resp.file)

---------------------------------------------------------------------------
(* Specification of the single-record read: records are created and        *)
(* updated, and read by id by any caller                                   *)

\* the ids a read names: the ids of the store and a text that is no uuid
ReadIds == BuyerIds \cup {"abc"}

NextRead ==
    \/ Respond
    \/ Tick
    \/ \E req \in {Headers("u1@x.io", "user", "u1"), Headers("u2@x.io", "user", "u2")},
          newId \in BuyerIds :
          CreateBuyer(req, BodyBase, newId, TRUE)
    \/ \E req \in {Headers("a1@x.io", "admin", "a1"), Headers("u2@x.io", "user", "u2")},
          id \in BuyerIds, body \in {BodyNotes, BodySpoof, BodyBadPhone} :
          PutBuyer(req, id, body, TRUE)
    \/ \E req \in RecordRequests, id \in ReadIds : GetBuyer(req, id)

SpecRead == Init /\ [][NextRead]_vars

\* C25: a read by id returns the stored record to every caller, whatever the
\* caller's id and role and the record's owner, returns NotFound exactly when
\* no record has the id, and changes no record and no history entry, so that
\* two reads with no write in between return the same fields, updatedAt
\* included.
C25_ReadUnrestricted ==
    [][(resp = Idle /\ resp'.op = "GET") =>
          /\ buyers' = buyers /\ history' = history /\ users' = users
          /\ (resp'.status = 404) <=> (resp'.id \notin DOMAIN buyers)
          /\ resp'.id \in DOMAIN buyers =>
                (resp'.status = 200 /\ resp'.buyer = buyers'[resp'.id])]_vars

---------------------------------------------------------------------------
(* Properties of the transfer of a deleted user's records *)

\* C27: when a user deletion succeeds while an active admin other than the
\* deleted user exists, all records the deleted user owned are reassigned to
\* one and the same such admin; a record loses its owner by a user deletion
\* only if it was the deleted user's and no such admin exists.
C27_OrphanOnlyWithoutAdmin ==
    [][(DeleteUserHandled /\ resp'.status = 200) =>
          \E t \in {Uuid(resp'.id)} :
          \E admins \in {{u \in DOMAIN users :
                            users[u].role = "admin" /\ users[u].isActive /\ u # t}} :
             LET owned == {b \in DOMAIN buyers : buyers[b].ownerId = t}
             IN  /\ admins # {} =>
                       \E a \in admins :
                          \A b \in owned : b \in DOMAIN buyers' /\ buyers'[b].ownerId = a
                 /\ \A b \in DOMAIN buyers \cap DOMAIN buyers' :
                       (buyers[b].ownerId # NULL /\ buyers'[b].ownerId = NULL)
                       => (b \in owned /\ admins = {})]_vars

\* user u1 was deleted while two active admins existed, and both records u1
\* created are owned by one admin
C27_Witness ==
    /\ resp.op = "DELETE_USER" /\ resp.status = 200 /\ resp.id = "u1"
    /\ Cardinality({u \in DOMAIN users : users[u].role = "admin" /\ users[u].isActive}) = 2
    /\ Cardinality(DOMAIN buyers) = 2
    /\ \E a \in DOMAIN users :
          /\ users[a].role = "admin"
          /\ \A b \in DOMAIN buyers : buyers[b].ownerId = a

---------------------------------------------------------------------------
(* Properties of the update's frame *)

\* C28: an update answered 200 replaces the record's scalar fields and its
\* status by the validated payload and sets updatedAt, and leaves the
\* record's id, ownerId and createdAt and every other record unchanged; an
\* update answered 403 or 400 leaves every field of every record unchanged.
C28_UpdateFrame ==
    [][(resp = Idle /\ resp'.op = "PUT") =>
          /\ resp'.status \in {200, 400, 403}
          /\ resp'.status # 200 => buyers' = buyers
          /\ resp'.status = 200 =>
                \E id \in {resp'.id}, payload \in {PutCleanedData(resp'.body)} :
                   /\ id \in DOMAIN buyers
                   /\ DOMAIN buyers' = DOMAIN buyers
                   /\ \A b \in DOMAIN buyers \ {id} : buyers'[b] = buyers[b]
                   /\ Scalars(buyers'[id]) = Scalars(payload)
                   /\ buyers'[id].status = payload.status
                   /\ buyers'[id].updatedAt = now
                   /\ buyers'[id].id = id
                   /\ buyers'[id].ownerId = buyers[id].ownerId
                   /\ buyers'[id].createdAt = buyers[id].createdAt]_vars

\* a record created at an earlier time by u1 was updated by the admin with a
\* payload naming another owner and status: it holds the payload's status,
\* the later updatedAt, and its first owner and createdAt
C28_Witness ==
    /\ resp.op = "PUT" /\ resp.status = 200 /\ resp.body = BodySpoof
    /\ resp.id \in DOMAIN buyers
    /\ buyers[resp.id].status = T("Qualified")
    /\ buyers[resp.id].ownerId = "u1"
    /\ buyers[resp.id].updatedAt = now
    /\ buyers[resp.id].createdAt < now

---------------------------------------------------------------------------
(* PUT and DELETE /api/buyers/[id] step by step: every await of a handler  *)
(* is a point where another request's statements can run                   *)

\* a handler that has returned with the status
Done(c, status) == [op |-> c.op, pc |-> "done", req |-> c.req, id |-> c.id, status |-> status]

\* PUT up to its parse: the identity, the ownership check with the row it
\* selects, cleanedData and the validation
PutCheck(p, req, id, body) ==
    LET currentUser == getUserFromRequestById(req)
        ownershipCheck == checkOwnershipOrAdmin(id, currentUser)
        issues == updateBuyerSchema(PutCleanedData(body))
        c == [op |-> "PUT", req |-> req, id |-> id]
    IN
    /\ calls[p] = NoCall
    /\ calls' = [calls EXCEPT ![p] =
                    IF ~ownershipCheck.authorized THEN Done(c, 403)
                    ELSE IF issues # <<>> THEN Done(c, 400)
                    ELSE [op |-> "PUT", pc |-> "write", req |-> req, id |-> id,
                          body |-> body, buyer |-> buyers[id]]]
    /\ UNCHANGED <<users, buyers, history, now, resp>>

\* the changes the history block computes from the row the check selected
PutChanges(c) ==
    IF PutCleanedData(c.body).status # c.buyer.status
    THEN {<<"status", c.buyer.status, PutCleanedData(c.body).status>>}
    ELSE {}

\* PUT's db.update(buyers).set({...}).where(eq(buyers.id, params.id)).returning().
\* When no row has the id, updatedBuyer[0] is undefined and the final
\* NextResponse.json(undefined) answers 200 or throws into the catch that
\* answers 500, depending on the framework's release.
PutWrite(p) ==
    LET c == calls[p]
    IN
    /\ c.op = "PUT" /\ c.pc = "write"
    /\ \E updatedBuyer \in {IF c.id \in DOMAIN buyers
                            THEN <<UpdateSet(c.id, PutCleanedData(c.body), buyers[c.id])>>
                            ELSE <<>>},
          status \in {200, 500} :
          /\ updatedBuyer # <<>> => status = 200
          /\ buyers' = IF updatedBuyer # <<>>
                       THEN [buyers EXCEPT ![c.id] = updatedBuyer[1]]
                       ELSE buyers
          /\ calls' = [calls EXCEPT ![p] =
                          [op |-> "PUT", pc |-> IF PutChanges(c) # {} THEN "history" ELSE "done",
                           req |-> c.req, id |-> c.id, body |-> c.body, buyer |-> c.buyer,
                           updatedBuyer |-> updatedBuyer, status |-> status]]
    /\ UNCHANGED <<users, history, now, resp>>

\* PUT's db.insert(buyerHistory) inside try/catch, and the return
PutHistory(p) ==
    LET c == calls[p]
        entry == HistoryRow(c.id, getUserFromRequestById(c.req).id, "updated", {}, PutChanges(c))
    IN
    /\ c.op = "PUT" /\ c.pc = "history"
    /\ history' = InsertHistory(history, entry, TRUE, DOMAIN buyers)
    /\ calls' = [calls EXCEPT ![p].pc = "done",
                              ![p].status = HistoryCatch(HistoryWritten(entry, TRUE, DOMAIN buyers),
                                                         c.status)]
    /\ UNCHANGED <<users, buyers, now, resp>>

\* DELETE up to its ownership check
DelCheck(p, req, id) ==
    LET currentUser == getUserFromRequestById(req)
        ownershipCheck == checkOwnershipOrAdmin(id, currentUser)
        c == [op |-> "DELETE", req |-> req, id |-> id]
    IN
    /\ calls[p] = NoCall
    /\ calls' = [calls EXCEPT ![p] =
                    IF ~ownershipCheck.authorized THEN Done(c, 403)
                    ELSE [op |-> "DELETE", pc |-> "write", req |-> req, id |-> id,
                          buyer |-> buyers[id]]]
    /\ UNCHANGED <<users, buyers, history, now, resp>>

\* DELETE's db.delete(buyers).where(eq(buyers.id, params.id)).returning()
DelWrite(p) ==
    LET c == calls[p]
    IN
    /\ c.op = "DELETE" /\ c.pc = "write"
    /\ \E deletedBuyer \in {IF c.id \in DOMAIN buyers THEN <<buyers[c.id]>> ELSE <<>>} :
          /\ buyers' = Without(buyers, c.id)
          /\ history' = CascadeBuyer(history, c.id)
          /\ calls' = [calls EXCEPT ![p] =
                          [op |-> "DELETE", pc |-> "done", req |-> c.req, id |-> c.id,
                           buyer |-> c.buyer, deletedBuyer |-> deletedBuyer,
                           status |-> IF deletedBuyer = <<>> THEN 404 ELSE 200]]
    /\ UNCHANGED <<users, now, resp>>

\* the response of a returned handler reaches its caller
Return(p) ==
    /\ calls[p] # NoCall /\ calls[p].pc = "done"
    /\ calls' = [calls EXCEPT ![p] = NoCall]
    /\ UNCHANGED <<users, buyers, history, now, resp>>

---------------------------------------------------------------------------
(* Specification of the concurrent record writes: two callers' updates and *)
(* deletes interleave at their awaits while records are created and users  *)
(* are deleted                                                             *)

ConcurrentRequests ==
    { Headers("a1@x.io", "admin", "a1"), Headers("u1@x.io", "user", "u1") }

\* the record the concurrent requests name
ConcurrentIds == {AllBuyerIds[1]}

NextConcurrent ==
    \/ Respond
    \/ \E newId \in BuyerIds :
          CreateBuyer(Headers("u1@x.io", "user", "u1"), BodyBase, newId, TRUE)
    \/ DeleteUser(Headers("a1@x.io", "admin", "a1"), "u1")
    \/ \E p \in Procs, req \in ConcurrentRequests, id \in ConcurrentIds, body \in {BodySpoof, BodyNotes} :
          PutCheck(p, req, id, body)
    \/ \E p \in Procs : PutWrite(p)
    \/ \E p \in Procs : PutHistory(p)
    \/ \E p \in Procs, req \in ConcurrentRequests, id \in ConcurrentIds : DelCheck(p, req, id)
    \/ \E p \in Procs : DelWrite(p)
    \/ \E p \in Procs : Return(p)

SpecConcurrent == Init /\ [][NextConcurrent]_vars

---------------------------------------------------------------------------
(* Properties of the concurrent record writes *)

\* the step in which the update of caller p commits its write
PutCommits(p) == calls[p].op = "PUT" /\ calls[p].pc = "write" /\ calls'[p] # calls[p]

\* the fields an update's payload sets
Payload(b) == [scalars |-> Scalars(b), status |-> b.status]

\* C23: of two authorized updates of one record that run concurrently neither
\* is rejected for a conflict: each one that passed its check and validation
\* commits its write on the stored record and is answered 200, whatever the
\* other committed in between; each committed write leaves the
\* record's fields equal to the whole payload of that update, and no other
\* step changes them, so the stored fields are those of the update whose
\* write was committed last and never a mixture of two payloads.
C23_LastWriteWins ==
    [][/\ \A p \in Procs :
             (PutCommits(p) /\ calls[p].id \in DOMAIN buyers) =>
                /\ calls'[p].status = 200
                /\ Payload(buyers'[calls[p].id]) = Payload(PutCleanedData(calls[p].body))
       /\ \A p \in Procs :
             (calls[p].op = "PUT" /\ calls[p].pc = "history" /\ calls'[p] # calls[p])
             => (calls'[p].pc = "done" /\ calls'[p].status = calls[p].status)
       /\ \A b \in DOMAIN buyers \cap DOMAIN buyers' :
             Payload(buyers'[b]) # Payload(buyers[b])
             => \E p \in Procs : PutCommits(p) /\ calls[p].id = b]_vars

\* two updates of one record overlapped: q passed its check while the record
\* still held status New, p committed the payload with status Qualified, q
\* committed its payload last, both were answered 200, and the record holds
\* q's whole payload
C23_Witness ==
    /\ calls["p"].op = "PUT" /\ calls["p"].pc = "done" /\ calls["p"].status = 200
    /\ calls["q"].op = "PUT" /\ calls["q"].pc = "done" /\ calls["q"].status = 200
    /\ calls["p"].id = calls["q"].id
    /\ calls["p"].body = BodySpoof /\ calls["q"].body = BodyNotes
    /\ calls["p"].updatedBuyer # <<>> /\ calls["q"].updatedBuyer # <<>>
    /\ calls["q"].buyer.status = T("New")
    /\ calls["p"].id \in DOMAIN buyers
    /\ Payload(buyers[calls["p"].id]) = Payload(PutCleanedData(BodyNotes))

\* the step in which the delete of caller p commits its write
DelCommits(p) == calls[p].op = "DELETE" /\ calls[p].pc = "write" /\ calls'[p] # calls[p]

\* C30: an update or a delete commits its write on a stored record only if,
\* in the state in which it commits, the requesting principal has role admin
\* or is the record's owner, also when a user deletion reassigned or nulled
\* the record's ownerId between the handler's ownership check and its write.
C30_WriteAuthorized ==
    [][\A p \in Procs :
          ((PutCommits(p) \/ DelCommits(p)) /\ calls[p].id \in DOMAIN buyers)
          => \E currentUser \in {getUserFromRequestById(calls[p].req)} :
                \/ currentUser.role = "admin"
                \/ buyers[calls[p].id].ownerId = currentUser.id]_vars

\* an update passed its check while u1 owned the record, the deletion of u1
\* reassigned the record to the admin, and the update then committed
C30_Witness ==
    \E p \in Procs :
       /\ calls[p].op = "PUT" /\ calls[p].pc = "done" /\ calls[p].status = 200
       /\ calls[p].buyer.ownerId = "u1"
       /\ calls[p].updatedBuyer # <<>>
       /\ calls[p].updatedBuyer[1].ownerId = "a1"
       /\ "u1" \notin DOMAIN users

\* the status transitions the history holds for record b, in commit order
Transitions(b) ==
    LET updated == SelectSeq(history, LAMBDA h : h.buyerId = b /\ h.diff.action = "updated"
                                                 /\ h.diff.changes # {})
    IN  [k \in DOMAIN updated |-> CHOOSE c \in updated[k].diff.changes : c[1] = "status"]

\* C29: for every stored record the status transitions of its updated
\* history entries, in commit order, form a chain that starts at New, each
\* from being the previous to, and ends at the stored status; a record
\* without such an entry holds the status New of its creation.  A record is
\* judged while no update of it stands between its write and its history
\* insert.
C29_StatusChain ==
    \A b \in DOMAIN buyers :
       (\A p \in Procs : ~(calls[p].op = "PUT" /\ calls[p].pc = "history" /\ calls[p].id = b))
       => \E chain \in {Transitions(b)} :
             /\ \A k \in DOMAIN chain :
                   chain[k][2] = IF k = 1 THEN T("New") ELSE chain[k - 1][3]
             /\ buyers[b].status = IF chain = <<>> THEN T("New") ELSE chain[Len(chain)][3]

---------------------------------------------------------------------------
(* POST /api/buyers/import step by step: the insert of each row is awaited, *)
(* so another import's rows can be inserted between two rows of this one   *)

\* an import whose rows are stored for the principal of whichever import is
\* in flight
ImportPrincipal_Shared(p) ==
    calls[CHOOSE q \in Procs : calls[q].op = "IMPORT" /\ calls[q].pc = "row"].currentUser

\* const currentUser of the invocation p
ImportPrincipal(p) == calls[p].currentUser

\* the rows of an import in flight that are still to be inserted
Pending(c) ==
    IF c.op = "IMPORT" /\ c.pc = "row"
    THEN Cardinality({k \in (c.i + 1)..Len(DataLines(c.file)) :
                         RowError(DataLines(c.file)[k], k - 1, c.currentUser, {}) = <<>>})
    ELSE 0

\* the import up to its loop: the identity, the file's lines, the results
ImportBegin(p, req, csvText) ==
    LET currentUser == getUserFromRequest(req)
        c == [op |-> "IMPORT", pc |-> "row", req |-> req, file |-> csvText,
              currentUser |-> currentUser, i |-> 0,
              success |-> 0, failed |-> 0, errors |-> <<>>]
        returned(status) == [op |-> "IMPORT", pc |-> "done", req |-> req, file |-> csvText,
                             status |-> status]
    IN
    /\ calls[p] = NoCall
    /\ IF ~currentUser.ok
       THEN calls' = [calls EXCEPT ![p] =
                         returned(IF currentUser.error = "User email not provided"
                                  THEN 401 ELSE 500)]
       ELSE IF Len(Lines(csvText)) < 2
       THEN calls' = [calls EXCEPT ![p] = returned(400)]
       ELSE /\ Pending(c) + Pending(calls["p"]) + Pending(calls["q"])
                  <= Cardinality(BuyerIds \ DOMAIN buyers)
            /\ calls' = [calls EXCEPT ![p] = c]
    /\ UNCHANGED <<users, buyers, history, now, resp>>

\* one iteration of the loop: the try block on data line i and its catch;
\* the handler returns after the last line
ImportStep(p) ==
    LET c == calls[p]
        dataLines == DataLines(c.file)
        line == dataLines[c.i + 1]
    IN
    /\ c.op = "IMPORT" /\ c.pc = "row"
    /\ \E ids \in IF RowError(line, c.i, ImportPrincipal(p), {}) = <<>>
                  THEN {<<b>> : b \in BuyerIds \ DOMAIN buyers}
                  ELSE {<<>>} :
          LET results == ImportRow([buyers |-> buyers, ids |-> ids, success |-> c.success,
                                    failed |-> c.failed, errors |-> c.errors],
                                   line, c.i, ImportPrincipal(p), {})
          IN  /\ buyers' = results.buyers
              /\ calls' = [calls EXCEPT ![p] =
                              [op |-> "IMPORT",
                               pc |-> IF c.i + 1 < Len(dataLines) THEN "row" ELSE "done",
                               req |-> c.req, file |-> c.file, currentUser |-> c.currentUser,
                               i |-> c.i + 1, success |-> results.success,
                               failed |-> results.failed, errors |-> results.errors,
                               status |-> 200]]
    /\ UNCHANGED <<users, history, now, resp>>

---------------------------------------------------------------------------
(* Specification of the concurrent imports: u1 and u2 import files of up   *)
(* to MaxRows data lines at the same time                                  *)

ConcurrentFiles ==
    {Join(<<ExportHeader>> \o rows, T(Newline)) :
        rows \in UNION {[1..n -> {LineExported, LineBadPhone}] : n \in 1..MaxRows}}

NextConcurrentImport ==
    \/ \E csvText \in ConcurrentFiles : ImportBegin("p", Headers("u1@x.io", "user", "u1"), csvText)
    \/ \E csvText \in ConcurrentFiles : ImportBegin("q", Headers("u2@x.io", "user", "u2"), csvText)
    \/ \E p \in Procs : ImportStep(p)
    \/ \E p \in Procs : Return(p)

SpecConcurrentImport == Init /\ [][NextConcurrentImport]_vars

\* the step in which the import of caller p handles a row
ImportSteps(p) == calls[p].op = "IMPORT" /\ calls[p].pc = "row" /\ calls'[p] # calls[p]

\* the results of the import of the file by principal P run alone on an
\* empty store
Alone(csvText, P) ==
    ImportLoop([buyers |-> <<>>, ids |-> [k \in 1..Len(DataLines(csvText)) |-> AllBuyerIds[k]],
                success |-> 0, failed |-> 0, errors |-> <<>>],
               DataLines(csvText), 0, P, {})

\* C24: when the imports of two principals interleave, every row step of an
\* import inserts exactly its own valid line as one new record owned by that
\* import's principal and changes no other record, a failing line inserts
\* nothing, and the success count, failed count and per-row errors an import
\* returns are those of the same import run alone.
C24_ImportsIndependent ==
    [][\A p \in Procs :
          /\ ImportSteps(p) =>
                \E P \in {getUserFromRequest(calls[p].req)},
                   line \in {DataLines(calls[p].file)[calls[p].i + 1]} :
                   /\ \A b \in DOMAIN buyers : b \in DOMAIN buyers' /\ buyers'[b] = buyers[b]
                   /\ IF RowError(line, calls[p].i, P, {}) = <<>>
                      THEN /\ Cardinality(Added) = 1
                           /\ \A b \in Added :
                                 buyers'[b] = BuyerRow(b, buyerData(Columns(line)), T("New"),
                                                       P.id, now, now)
                      ELSE Added = {}
          /\ (ImportSteps(p) /\ calls'[p].pc = "done") =>
                \E alone \in {Alone(calls[p].file, getUserFromRequest(calls[p].req))} :
                   /\ calls'[p].status = 200
                   /\ calls'[p].success = alone.success
                   /\ calls'[p].failed = alone.failed
                   /\ calls'[p].errors = alone.errors]_vars

\* both imports are in flight, each has inserted its first row and has a row
\* left, and the store holds one record of each principal
C24_Witness ==
    /\ calls["p"].op = "IMPORT" /\ calls["p"].pc = "row"
    /\ calls["q"].op = "IMPORT" /\ calls["q"].pc = "row"
    /\ calls["p"].i = 1 /\ calls["p"].success = 1
    /\ calls["q"].i = 1 /\ calls["q"].success = 1
    /\ {buyers[b].ownerId : b \in DOMAIN buyers} = {"u1", "u2"}

===========================================================================
